---- MODULE Spec2Model ----
(***************************************************************************)
(* The ingestion pipeline of the E-Commerce Growth Intelligence Tool:      *)
(* alias-based column mapping (modules/schema_detection.py), cleaning      *)
(* (modules/data_cleaning.py) and the top-level workflow (app.py).         *)
(*                                                                         *)
(* Text is a sequence of tokens (one-character strings such as "$" or "-", *)
(* or chunks of letters/digits such as "Revenue" or "2024"); a normalized  *)
(* column name is the TLA+ string obtained by joining the tokens.  A table *)
(* cell is a record [k, s, n]: k is the kind ("null", "str", "num",        *)
(* "date"), s the tokens of a text cell, n the number of a numeric cell or *)
(* 10000*year + 100*month + day of a datetime cell.                        *)
(***************************************************************************)
EXTENDS Integers, Sequences, FiniteSets, TLC

VARIABLES pc, config, df, mapped_df, mapping, missing_required,
          clean_df, cleaning_report, cl, calls,
          monthly_df, kpis, ret

vars == <<pc, config, df, mapped_df, mapping, missing_required,
          clean_df, cleaning_report, cl, calls, monthly_df, kpis, ret>>

(***************************************************************************)
(* Bounds of the model.                                                    *)
(***************************************************************************)
MaxCols == 4

MaxRows == 2

(***************************************************************************)
(* config.py                                                               *)
(***************************************************************************)
REQUIRED_COLUMNS == <<"date", "order_id", "customer_id", "revenue">>

OPTIONAL_COLUMNS ==
  <<"cost", "channel", "region", "category", "device", "marketing_spend">>

COLUMN_ALIASES ==
  [ date |-> <<"date", "order_date", "purchase_date", "transaction_date",
               "created_at", "created_date", "sale_date", "invoice_date",
               "dt", "dates">>,
    order_id |-> <<"order_id", "orderid", "order_number", "order_no",
                   "transaction_id", "txn_id", "invoice_id", "id">>,
    customer_id |-> <<"customer_id", "customerid", "cust_id", "custid",
                      "client_id", "user_id", "userid", "buyer_id">>,
    revenue |-> <<"revenue", "sales", "amount", "total_amount", "order_value",
                  "total_sales", "total_revenue", "sale_amount", "gmv",
                  "gross_revenue", "net_revenue", "price", "total_price",
                  "order_amount", "transaction_amount">>,
    cost |-> <<"cost", "total_cost", "cogs", "cost_of_goods",
               "expense", "product_cost">>,
    channel |-> <<"channel", "source", "traffic_source", "acquisition_channel",
                  "utm_source", "marketing_channel", "medium">>,
    region |-> <<"region", "location", "area", "zone", "city",
                 "state", "country", "geography", "geo">>,
    category |-> <<"category", "product_category", "item_category",
                   "department", "product_type", "type", "segment">>,
    device |-> <<"device", "device_type", "platform", "device_category">>,
    marketing_spend |-> <<"marketing_spend", "ad_spend", "spend",
                          "marketing_cost", "advertising_cost",
                          "campaign_cost", "media_spend">> ]

CURRENCY_SYMBOLS == <<"Rs", "$", "EUR", "GBP", "JPY", ",">>

TEXT_COLUMNS == <<"channel", "region", "category", "device">>

(***************************************************************************)
(* Text: Python's str.strip, str.lower, str.replace and str.join on token  *)
(* sequences.                                                              *)
(***************************************************************************)
WHITESPACE == {" ", "\t"}

UPPER_TO_LOWER ==
  [ Revenue |-> "revenue", SALES |-> "sales", Order |-> "order", ID |-> "id",
    Date |-> "date", Web |-> "web", NaN |-> "nan", None |-> "none" ]

Lower(t) == IF t \in DOMAIN UPPER_TO_LOWER THEN UPPER_TO_LOWER[t] ELSE t

RECURSIVE LStrip(_)
LStrip(s) == IF s # <<>> /\ Head(s) \in WHITESPACE THEN LStrip(Tail(s)) ELSE s

RECURSIVE RStrip(_)
RStrip(s) ==
  IF s # <<>> /\ s[Len(s)] \in WHITESPACE
  THEN RStrip(SubSeq(s, 1, Len(s) - 1))
  ELSE s

Strip(s) == RStrip(LStrip(s))

RECURSIVE Join(_)
Join(s) == IF s = <<>> THEN "" ELSE Head(s) \o Join(Tail(s))

DIGITS == <<"0", "1", "2", "3", "4", "5", "6", "7", "8", "9">>

RECURSIVE ToStr(_)
ToStr(n) ==
  IF n < 10 THEN DIGITS[n + 1] ELSE ToStr(n \div 10) \o DIGITS[(n % 10) + 1]

InSeq(x, s) == \E i \in 1..Len(s) : s[i] = x

(***************************************************************************)
(* schema_detection.py                                                     *)
(***************************************************************************)
normalize_col_name(name) ==
  LET st == Strip(name)
      lo == [i \in 1..Len(st) |-> Lower(st[i])]
  IN  Join([i \in 1..Len(lo) |-> IF lo[i] = " " THEN "_" ELSE lo[i]])

\* seen[col] when the loop reaches position i: the number of earlier
\* occurrences of col, less one (col is in seen iff it occurred before).
SeenCount(columns, i) ==
  Cardinality({j \in 1..(i - 1) : columns[j] = columns[i]})

\* A suffix on every occurrence of a name that occurs again, the first too.
deduplicate_columns_every_occurrence(columns) ==
  [i \in 1..Len(columns) |->
     IF \E j \in 1..Len(columns) : j # i /\ columns[j] = columns[i]
     THEN columns[i] \o "_" \o ToStr(SeenCount(columns, i))
     ELSE columns[i]]

deduplicate_columns(columns) ==
  [i \in 1..Len(columns) |->
     IF SeenCount(columns, i) > 0
     THEN columns[i] \o "_" \o ToStr(SeenCount(columns, i))
     ELSE columns[i]]

\* a + b extended in place: the list a itself grows.
ListExtend(a, b) == [left |-> a \o b, result |-> a \o b]

\* a + b on lists: a new list; left is the list a after the operation.
ListAdd(a, b) == [left |-> a, result |-> a \o b]

\* Line 30.
all_standard == ListAdd(REQUIRED_COLUMNS, OPTIONAL_COLUMNS).result

AliasesOf(standard_col) ==
  IF standard_col \in DOMAIN COLUMN_ALIASES
  THEN COLUMN_ALIASES[standard_col]
  ELSE <<standard_col>>

\* _normalize_col_name(alias) of line 37, for every alias of every field.
NORMALIZED_ALIASES ==
  [f \in DOMAIN COLUMN_ALIASES |->
     [j \in 1..Len(COLUMN_ALIASES[f]) |-> normalize_col_name(<<COLUMN_ALIASES[f][j]>>)]]

NormalizedAliasesOf(standard_col) ==
  IF standard_col \in DOMAIN COLUMN_ALIASES
  THEN NORMALIZED_ALIASES[standard_col]
  ELSE <<normalize_col_name(<<standard_col>>)>>

\* The test of schema_detection.py line 38.
AliasFree(normalized_alias, columns, rename_map) ==
  InSeq(normalized_alias, columns) /\ normalized_alias \notin DOMAIN rename_map

\* The loop of lines 36-42 scanning the aliases from the last to the first.
RECURSIVE ScanAliasesReversed(_, _, _, _, _)
ScanAliasesReversed(columns, st, standard_col, aliases, j) ==
  LET k == Len(aliases) + 1 - j IN
  IF j > Len(aliases) THEN st
  ELSE IF AliasFree(aliases[k], columns, st.rename_map)
       THEN [ mapping |-> Append(st.mapping, <<standard_col, aliases[k]>>),
              rename_map |->
                IF aliases[k] # standard_col
                THEN (aliases[k] :> standard_col) @@ st.rename_map
                ELSE st.rename_map ]
       ELSE ScanAliasesReversed(columns, st, standard_col, aliases, j + 1)

\* The loop of lines 36-42 without its break: every free alias present is put
\* in rename_map, and mapping[standard_col] is overwritten by the last one.
RECURSIVE ScanAliasesNoBreak(_, _, _, _, _)
ScanAliasesNoBreak(columns, st, standard_col, aliases, j) ==
  IF j > Len(aliases) THEN st
  ELSE IF AliasFree(aliases[j], columns, st.rename_map)
       THEN CHOOSE result \in
              {ScanAliasesNoBreak(columns, next, standard_col, aliases, j + 1) :
                 next \in
                   {[ mapping |->
                        Append(SelectSeq(st.mapping, LAMBDA e : e[1] # standard_col),
                               <<standard_col, aliases[j]>>),
                      rename_map |->
                        IF aliases[j] # standard_col
                        THEN (aliases[j] :> standard_col) @@ st.rename_map
                        ELSE st.rename_map ]}} : TRUE
       ELSE ScanAliasesNoBreak(columns, st, standard_col, aliases, j + 1)

\* The inner loop over one field's aliases (lines 36-42), the aliases given
\* normalized: st is the pair of dictionaries, mapping as the sequence of
\* its items in insertion order.
RECURSIVE ScanAliases(_, _, _, _, _)
ScanAliases(columns, st, standard_col, aliases, j) ==
  IF j > Len(aliases) THEN st
  ELSE LET normalized_alias == aliases[j] IN
       IF AliasFree(normalized_alias, columns, st.rename_map)
       THEN [ mapping |-> Append(st.mapping, <<standard_col, normalized_alias>>),
              rename_map |->
                IF normalized_alias # standard_col
                THEN (normalized_alias :> standard_col) @@ st.rename_map
                ELSE st.rename_map ]
       ELSE ScanAliases(columns, st, standard_col, aliases, j + 1)

\* The outer loop over the canonical fields (line 34).
RECURSIVE BuildMapping(_, _, _, _)
BuildMapping(columns, st, fields, i) ==
  IF i > Len(fields) THEN st
  ELSE CHOOSE result \in
         {BuildMapping(columns, next, fields, i + 1) :
            next \in {ScanAliases(columns, st, fields[i],
                                 NormalizedAliasesOf(fields[i]), 1)}} :
         TRUE

MappingKeys(m) == {m[i][1] : i \in 1..Len(m)}

MappingValues(m) == {m[i][2] : i \in 1..Len(m)}

MappingGet(m, k) == m[CHOOSE i \in 1..Len(m) : m[i][1] = k][2]

\* Line 50 testing the bound source names instead of the mapping's keys.
MissingRequiredByValue(m) ==
  SelectSeq(REQUIRED_COLUMNS, LAMBDA col : col \notin MappingValues(m))

MissingRequired(m) ==
  SelectSeq(REQUIRED_COLUMNS, LAMBDA col : col \notin MappingKeys(m))

NormalizedColumns(table) ==
  deduplicate_columns(
    [i \in 1..Len(table.columns) |-> normalize_col_name(table.columns[i])])

Rename(columns, rename_map) ==
  [i \in 1..Len(columns) |->
     IF columns[i] \in DOMAIN rename_map THEN rename_map[columns[i]]
     ELSE columns[i]]

\* detect_and_map(df): [df, mapping, missing_required, rename_map].
detect_and_map(table) ==
  LET columns == NormalizedColumns(table)
      st == BuildMapping(columns,
                         [mapping |-> <<>>, rename_map |-> [c \in {} |-> ""]],
                         all_standard, 1)
  IN  [ df |-> [columns |-> Rename(columns, st.rename_map), rows |-> table.rows],
        mapping |-> st.mapping,
        missing_required |-> MissingRequired(st.mapping),
        rename_map |-> st.rename_map ]

(***************************************************************************)
(* Tables: columns is the sequence of column names, rows the sequence of   *)
(* rows, each row the sequence of its cells in column order.               *)
(***************************************************************************)
Null == [k |-> "null", s |-> <<>>, n |-> 0]

Str(tokens) == [k |-> "str", s |-> tokens, n |-> 0]

Num(v) == [k |-> "num", s |-> <<>>, n |-> v]

Date(y, m, d) == [k |-> "date", s |-> <<>>, n |-> 10000 * y + 100 * m + d]

IsNa(c) == c.k = "null"

EmptyTable == [columns |-> <<>>, rows |-> <<>>]

HasCol(table, name) == InSeq(name, table.columns)

ColIdx(table, name) == CHOOSE i \in 1..Len(table.columns) : table.columns[i] = name

Column(table, name) ==
  [i \in 1..Len(table.rows) |-> table.rows[i][ColIdx(table, name)]]

SetColumn(table, name, values) ==
  [table EXCEPT !.rows =
     [i \in 1..Len(table.rows) |->
        [table.rows[i] EXCEPT ![ColIdx(table, name)] = values[i]]]]

AddColumn(table, name, values) ==
  [ columns |-> Append(table.columns, name),
    rows |-> [i \in 1..Len(table.rows) |-> Append(table.rows[i], values[i])] ]

RECURSIVE PickFrom(_, _, _)
PickFrom(rows, keep, i) ==
  IF i > Len(rows) THEN <<>>
  ELSE (IF i \in keep THEN <<rows[i]>> ELSE <<>>) \o PickFrom(rows, keep, i + 1)

\* The rows whose position is in keep, in order.
KeepRows(table, keep) == [table EXCEPT !.rows = PickFrom(table.rows, keep, 1)]

NaCount(series) == Cardinality({i \in 1..Len(series) : IsNa(series[i])})

NotNaCount(series) == Cardinality({i \in 1..Len(series) : ~IsNa(series[i])})

Max(a, b) == IF a >= b THEN a ELSE b

(***************************************************************************)
(* Numbers.  A table cell Num(v) is the integer v; the result of a         *)
(* division is the exact fraction Rat(p, q); round(x, 2) gives Dec(h), the *)
(* number h / 100.  NoneValue is Python's None, Null the missing-value     *)
(* marker of a table cell (NaN).                                           *)
(***************************************************************************)
NoneValue == [k |-> "none", s |-> <<>>, n |-> 0]

Dec(h) == [k |-> "dec", s |-> <<>>, n |-> h]

Abs(x) == IF x < 0 THEN 0 - x ELSE x

RECURSIVE Gcd(_, _)
Gcd(a, b) == IF b = 0 THEN a ELSE Gcd(b, a % b)

\* The fraction p / q (q # 0) in lowest terms, the sign on p.
Rat(p, q) ==
  LET g == Gcd(Abs(p), Abs(q))
  IN  [k |-> "rat", p |-> (IF q < 0 THEN 0 - p ELSE p) \div g, q |-> Abs(q) \div g]

IsNumber(c) == c.k \in {"num", "dec", "rat"}

RatOf(c) ==
  CASE c.k = "num" -> Rat(c.n, 1)
    [] c.k = "dec" -> Rat(c.n, 100)
    [] OTHER -> c

IsZero(c) == IsNumber(c) /\ RatOf(c).p = 0

RatSub(a, b) == Rat(RatOf(a).p * RatOf(b).q - RatOf(b).p * RatOf(a).q,
                    RatOf(a).q * RatOf(b).q)

RatDiv(a, b) == Rat(RatOf(a).p * RatOf(b).q, RatOf(a).q * RatOf(b).p)

\* x * 100: NaN stays NaN.
Times100(x) == IF IsNumber(x) THEN Rat(RatOf(x).p * 100, RatOf(x).q) ELSE x

\* The integer nearest to p / q (q > 0), the even one of two equally near.
RoundHalfEven(p, q) ==
  LET fl == p \div q
      rem == p % q
  IN  IF 2 * rem < q THEN fl
      ELSE IF 2 * rem > q THEN fl + 1
      ELSE IF fl % 2 = 0 THEN fl ELSE fl + 1

\* round(x, 2): NaN stays NaN.
round2(x) ==
  IF IsNumber(x) THEN Dec(RoundHalfEven(RatOf(x).p * 100, RatOf(x).q)) ELSE x

\* numerator / denominator raises TypeError unless both are numbers (a NaN
\* is a float); with a NaN on either side the quotient is NaN.
DivisionRaises(numerator, denominator) ==
  \/ ~(IsNumber(numerator) \/ numerator.k = "null")
  \/ ~(IsNumber(denominator) \/ denominator.k = "null")

\* config.py lines 101-108.
safe_divide(numerator, denominator, default) ==
  IF denominator.k = "none" \/ IsZero(denominator) THEN default
  ELSE IF DivisionRaises(numerator, denominator) THEN default
  ELSE IF numerator.k = "null" \/ denominator.k = "null" THEN Null
  ELSE RatDiv(numerator, denominator)

\* config.py lines 111-118.
safe_pct_change(new_val, old_val, default) ==
  IF old_val.k = "none" \/ IsZero(old_val) THEN default
  ELSE IF DivisionRaises(new_val, old_val) THEN default
  ELSE IF new_val.k = "null" \/ old_val.k = "null" THEN Null
  ELSE Times100(RatDiv(RatSub(new_val, old_val), old_val))

\* The default of both: 0.0.
DEFAULT == Dec(0)

(***************************************************************************)
(* Dates.  DATE_FORMATS of config.py, each format as its directives and    *)
(* literal characters; strptime matches a text token by token.             *)
(***************************************************************************)
DATE_FORMATS ==
  << <<"%Y", "-", "%m", "-", "%d">>,
     <<"%d", "-", "%m", "-", "%Y">>,
     <<"%m", "-", "%d", "-", "%Y">>,
     <<"%d", "/", "%m", "/", "%Y">>,
     <<"%m", "/", "%d", "/", "%Y">>,
     <<"%Y", "/", "%m", "/", "%d">>,
     <<"%d", " ", "%b", " ", "%Y">>,
     <<"%d", " ", "%B", " ", "%Y">>,
     <<"%b", " ", "%d", ",", " ", "%Y">>,
     <<"%B", " ", "%d", ",", " ", "%Y">> >>

\* The numerals of the model's date texts, with their values.
NUMERALS ==
  [t \in {"03", "04", "05", "25", "31", "2023", "2024"} |->
     CASE t = "03" -> 3 [] t = "04" -> 4 [] t = "05" -> 5 [] t = "25" -> 25
       [] t = "31" -> 31 [] t = "2023" -> 2023 [] t = "2024" -> 2024]

MONTH_ABBR == [t \in {"Mar", "Apr", "May"} |->
                 CASE t = "Mar" -> 3 [] t = "Apr" -> 4 [] t = "May" -> 5]

MONTH_FULL == [t \in {"March", "April", "May"} |->
                 CASE t = "March" -> 3 [] t = "April" -> 4 [] t = "May" -> 5]

IsNumeral(t) == t \in DOMAIN NUMERALS

DaysInMonth(y, m) ==
  IF m \in {4, 6, 9, 11} THEN 30
  ELSE IF m # 2 THEN 31
  ELSE IF (y % 4 = 0 /\ y % 100 # 0) \/ y % 400 = 0 THEN 29 ELSE 28

\* Does token t match directive (or literal) d?
DirectiveMatches(d, t) ==
  CASE d = "%Y" -> IsNumeral(t) /\ Len(t) = 4
    [] d = "%m" -> IsNumeral(t) /\ Len(t) <= 2 /\ NUMERALS[t] \in 1..12
    [] d = "%d" -> IsNumeral(t) /\ Len(t) <= 2 /\ NUMERALS[t] \in 1..31
    [] d = "%b" -> t \in DOMAIN MONTH_ABBR
    [] d = "%B" -> t \in DOMAIN MONTH_FULL
    [] OTHER -> t = d

DirectiveValue(d, t) ==
  CASE d = "%b" -> MONTH_ABBR[t]
    [] d = "%B" -> MONTH_FULL[t]
    [] OTHER -> NUMERALS[t]

\* The value the text gives to one of the directives in ds (year, month, day).
FieldOf(tokens, fmt, ds) ==
  LET i == CHOOSE j \in 1..Len(fmt) : fmt[j] \in ds
  IN  DirectiveValue(fmt[i], tokens[i])

\* pd.to_datetime(value, format=fmt, errors="coerce") on one cell.
strptime(c, fmt) ==
  IF c.k = "date" THEN c
  ELSE IF c.k # "str" THEN Null
  ELSE IF Len(c.s) # Len(fmt) THEN Null
  ELSE IF \E i \in 1..Len(fmt) : ~DirectiveMatches(fmt[i], c.s[i]) THEN Null
  ELSE LET y == FieldOf(c.s, fmt, {"%Y"})
           m == FieldOf(c.s, fmt, {"%m", "%b", "%B"})
           d == FieldOf(c.s, fmt, {"%d"})
       IN  IF d <= DaysInMonth(y, m) THEN Date(y, m, d) ELSE Null

ParseWith(series, fmt) == [i \in 1..Len(series) |-> strptime(series[i], fmt)]

\* pd.to_datetime(series, errors="coerce", infer_datetime_format=True) is
\* library code whose result depends on the pandas version (per-value
\* parsing, or one format inferred from the first value and applied to
\* all): a missing value gives NaT, a text gives NaT or one of its readings.
GeneralOutcomes(c) ==
  IF c.k = "str" THEN {Null} \cup {strptime(c, DATE_FORMATS[f]) : f \in 1..Len(DATE_FORMATS)}
  ELSE {strptime(c, DATE_FORMATS[1])}

RECURSIVE GeneralParses(_)
GeneralParses(series) ==
  IF series = <<>> THEN {<<>>}
  ELSE {<<h>> \o t : h \in GeneralOutcomes(Head(series)),
                     t \in GeneralParses(Tail(series))}

\* nat_ratio >= 0.5 in place of nat_ratio > 0.5.
SweepNeededAtHalf(converted, series) ==
  2 * NaCount(converted) >= Max(Len(series), 1)

\* data_cleaning.py line 149-150: nat_ratio > 0.5, in integers.
SweepNeeded(converted, series) ==
  2 * NaCount(converted) > Max(Len(series), 1)

\* data_cleaning.py line 154.
Better(attempt, converted) == NotNaCount(attempt) > NotNaCount(converted)

RECURSIVE Sweep(_, _, _)
Sweep(series, converted, f) ==
  IF f > Len(DATE_FORMATS) THEN converted
  ELSE LET attempt == ParseWith(series, DATE_FORMATS[f])
       IN  Sweep(series, IF Better(attempt, converted) THEN attempt ELSE converted,
                 f + 1)

\* The count without the subtraction of the values missing in the input.
InvalidCountOfAllNaT(converted, series) == NaCount(converted)

InvalidCount(converted, series) == Max(0, NaCount(converted) - NaCount(series))

\* _convert_dates(series), given the result of the general parse.
convert_dates(series, general) ==
  LET swept == SweepNeeded(general, series)
      converted == IF swept THEN Sweep(series, general, 1) ELSE general
  IN  [ converted |-> converted,
        invalid_count |-> InvalidCount(converted, series),
        swept |-> swept ]

(***************************************************************************)
(* data_cleaning.py                                                        *)
(***************************************************************************)
IsDigit(t) == InSeq(t, DIGITS)

DigitValue(t) == (CHOOSE i \in 1..Len(DIGITS) : DIGITS[i] = t) - 1

RECURSIVE DigitsValue(_, _)
DigitsValue(tokens, acc) ==
  IF tokens = <<>> THEN acc
  ELSE DigitsValue(Tail(tokens), 10 * acc + DigitValue(Head(tokens)))

RECURSIVE DigitTokens(_)
DigitTokens(n) ==
  IF n < 10 THEN <<DIGITS[n + 1]>>
  ELSE Append(DigitTokens(n \div 10), DIGITS[(n % 10) + 1])

\* Series.astype(str) on one cell: a missing value prints as "nan".
AsStr(c) ==
  CASE c.k = "str" -> c.s
    [] c.k = "num" -> IF c.n < 0 THEN <<"-">> \o DigitTokens(0 - c.n)
                      ELSE DigitTokens(c.n)
    [] OTHER -> <<"nan">>

\* str.replace(pattern, "", regex=True) with the character class of the
\* currency symbols and whitespace (line 171-172).
StripSymbols(tokens) ==
  SelectSeq(tokens, LAMBDA t : ~InSeq(t, CURRENCY_SYMBOLS) /\ t \notin WHITESPACE)

NUMERIC_SENTINELS == {"nan", "", "none", "null"}

\* pd.to_numeric(value, errors="coerce") on one text: an optional sign and
\* digits give the number, any other text NaN.
to_numeric(tokens) ==
  LET signed == tokens # <<>> /\ Head(tokens) \in {"-", "+"}
      body == IF signed THEN Tail(tokens) ELSE tokens
      v == DigitsValue(body, 0)
  IN  IF body # <<>> /\ \A i \in 1..Len(body) : IsDigit(body[i])
      THEN Num(IF signed /\ Head(tokens) = "-" THEN 0 - v ELSE v)
      ELSE Null

\* _clean_numeric putting 0 where the text is no number.
clean_numeric_cell_zero(c) ==
  LET s == StripSymbols(AsStr(c))
  IN  IF Join(s) \in NUMERIC_SENTINELS THEN Null
      ELSE IF to_numeric(s) = Null THEN Num(0) ELSE to_numeric(s)

\* _clean_numeric on one cell.
clean_numeric_cell(c) ==
  LET s == StripSymbols(AsStr(c))
  IN  IF Join(s) \in NUMERIC_SENTINELS THEN Null ELSE to_numeric(s)

clean_numeric(series) == [i \in 1..Len(series) |-> clean_numeric_cell(series[i])]

\* Step 1 left out.
drop_duplicates_skipped(table) == table

\* Step 1 (lines 37-40): drop_duplicates(subset=["order_id"], keep="first").
\* pandas takes two missing keys to be equal.
\* keep="last" in place of keep="first".
LastOccurrences(series) ==
  {i \in 1..Len(series) : \A j \in (i + 1)..Len(series) : series[j] # series[i]}

\* Missing keys taken to differ from each other, as NaN != NaN would have it.
FirstOccurrencesNullsApart(series) ==
  {i \in 1..Len(series) :
     IsNa(series[i]) \/ \A j \in 1..(i - 1) : series[j] # series[i]}

FirstOccurrences(series) ==
  {i \in 1..Len(series) : \A j \in 1..(i - 1) : series[j] # series[i]}

drop_duplicates(table) ==
  IF HasCol(table, "order_id")
  THEN KeepRows(table, FirstOccurrences(Column(table, "order_id")))
  ELSE table

\* df.dropna(subset=cols, how="any"): the rows without a missing value.
NotAnyNull(table, cols) ==
  {i \in 1..Len(table.rows) :
     \A c \in 1..Len(cols) : ~IsNa(table.rows[i][ColIdx(table, cols[c])])}

\* df.dropna(subset=cols, how="all") / how="any" for a single column.
NotAllNull(table, cols) ==
  {i \in 1..Len(table.rows) :
     \E c \in 1..Len(cols) : ~IsNa(table.rows[i][ColIdx(table, cols[c])])}

\* Step 2 adding only the invalid dates to null_rows_dropped.
DatePassCountingInvalid(table, general) ==
  IF HasCol(table, "date")
  THEN LET series == Column(table, "date")
           r == convert_dates(series, general)
           t == SetColumn(table, "date", r.converted)
       IN  [ df |-> KeepRows(t, NotAllNull(t, <<"date">>)),
             invalid_dates |-> r.invalid_count,
             null_dates |-> r.invalid_count,
             converted |-> r.converted,
             swept |-> r.swept ]
  ELSE [ df |-> table, invalid_dates |-> 0, null_dates |-> 0,
         converted |-> <<>>, swept |-> FALSE ]

\* Step 2 that counts the rows without a date and keeps them.
DatePassKeepingNull(table, general) ==
  IF HasCol(table, "date")
  THEN LET series == Column(table, "date")
           r == convert_dates(series, general)
           t == SetColumn(table, "date", r.converted)
       IN  [ df |-> t,
             invalid_dates |-> r.invalid_count,
             null_dates |-> NaCount(r.converted),
             converted |-> r.converted,
             swept |-> r.swept ]
  ELSE [ df |-> table, invalid_dates |-> 0, null_dates |-> 0,
         converted |-> <<>>, swept |-> FALSE ]

\* Step 2 (lines 43-49).
DatePass(table, general) ==
  IF HasCol(table, "date")
  THEN LET series == Column(table, "date")
           r == convert_dates(series, general)
           t == SetColumn(table, "date", r.converted)
       IN  [ df |-> KeepRows(t, NotAllNull(t, <<"date">>)),
             invalid_dates |-> r.invalid_count,
             null_dates |-> NaCount(r.converted),
             converted |-> r.converted,
             swept |-> r.swept ]
  ELSE [ df |-> table, invalid_dates |-> 0, null_dates |-> 0,
         converted |-> <<>>, swept |-> FALSE ]

\* Step 3 (lines 52-55), one column after the other.
RECURSIVE NumericPass(_, _, _)
NumericPass(table, cols, i) ==
  IF i > Len(cols) THEN table
  ELSE NumericPass(
         IF HasCol(table, cols[i])
         THEN SetColumn(table, cols[i], clean_numeric(Column(table, cols[i])))
         ELSE table,
         cols, i + 1)

\* Lines 58-60.
InvalidRevenue(table) ==
  IF HasCol(table, "revenue") THEN NaCount(Column(table, "revenue")) ELSE 0

NegativeRevenue(table) ==
  IF HasCol(table, "revenue")
  THEN Cardinality({i \in 1..Len(table.rows) :
                      LET c == Column(table, "revenue")[i]
                      IN  c.k = "num" /\ c.n < 0})
  ELSE 0

\* Step 4 (lines 63-67).
RequiredPresent(table) ==
  SelectSeq(REQUIRED_COLUMNS, LAMBDA c : HasCol(table, c))

\* Step 4 followed by a filter that keeps only rows of non-negative revenue.
RequiredNullPassDroppingNegative(table) ==
  LET t == IF RequiredPresent(table) # <<>>
           THEN KeepRows(table, NotAllNull(table, RequiredPresent(table)))
           ELSE table
  IN  IF HasCol(t, "revenue")
      THEN KeepRows(t, {i \in 1..Len(t.rows) : Column(t, "revenue")[i].n >= 0})
      ELSE t

RequiredNullPass(table) ==
  IF RequiredPresent(table) # <<>>
  THEN KeepRows(table, NotAllNull(table, RequiredPresent(table)))
  ELSE table

\* Step 5 (lines 70-73): fillna(0).
RECURSIVE FillPass(_, _, _)
FillPass(table, cols, i) ==
  IF i > Len(cols) THEN table
  ELSE FillPass(
         IF HasCol(table, cols[i])
         THEN SetColumn(table, cols[i],
                [r \in 1..Len(table.rows) |->
                   LET c == Column(table, cols[i])[r]
                   IN  IF IsNa(c) THEN Num(0) ELSE c])
         ELSE table,
         cols, i + 1)

\* Step 6 (lines 79-81) on one cell.
normalize_text_cell(c) ==
  LET st == Strip(AsStr(c))
      lo == [i \in 1..Len(st) |-> Lower(st[i])]
  IN  IF Join(lo) = "nan" THEN Str(<<"unknown">>) ELSE Str(lo)

RECURSIVE TextPass(_, _, _)
TextPass(table, cols, i) ==
  IF i > Len(cols) THEN table
  ELSE TextPass(
         IF HasCol(table, cols[i])
         THEN SetColumn(table, cols[i],
                [r \in 1..Len(table.rows) |->
                   normalize_text_cell(Column(table, cols[i])[r])])
         ELSE table,
         cols, i + 1)

TextCount(table) ==
  Cardinality({i \in 1..Len(TEXT_COLUMNS) : HasCol(table, TEXT_COLUMNS[i])})

\* The period with the month not padded to two digits.
year_month_unpadded(c) ==
  LET y == c.n \div 10000
      m == (c.n \div 100) % 100
  IN  Str(DigitTokens(y) \o <<"-">> \o DigitTokens(m))

\* Step 7 (line 87): the period of a datetime as "YYYY-MM", one token per
\* character.
year_month_of(c) ==
  LET y == c.n \div 10000
      m == (c.n \div 100) % 100
  IN  Str(DigitTokens(y) \o <<"-">> \o (IF m < 10 THEN <<"0">> ELSE <<>>)
          \o DigitTokens(m))

BucketPass(table) ==
  IF HasCol(table, "date")
  THEN (IF HasCol(table, "year_month")
        THEN SetColumn(table, "year_month",
               [r \in 1..Len(table.rows) |-> year_month_of(Column(table, "date")[r])])
        ELSE AddColumn(table, "year_month",
               [r \in 1..Len(table.rows) |-> year_month_of(Column(table, "date")[r])]))
  ELSE table

\* The report and the intermediate tables, once every pass has run: s1 is
\* the table after step 1, dp the result of step 2, s3 .. s7 the tables
\* after steps 3 .. 7.
CleanResult(table, general, s1, dp, s3, s4, s5, s7) ==
  [ df |-> s7,
    report |->
      [ original_rows |-> Len(table.rows),
        duplicates_removed |-> Len(table.rows) - Len(s1.rows),
        null_rows_dropped |-> dp.null_dates + (Len(s3.rows) - Len(s4.rows)),
        invalid_dates |-> dp.invalid_dates,
        invalid_revenue |-> InvalidRevenue(s3),
        negative_revenue |-> NegativeRevenue(s3),
        text_normalized |-> TextCount(s5),
        final_rows |-> Len(s7.rows) ],
    locals |->
      [ input |-> table,
        deduped |-> s1,
        general |-> general,
        converted |-> dp.converted,
        swept |-> dp.swept,
        dated |-> dp.df,
        numeric |-> s3,
        required |-> s4 ] ]

\* Steps 5-8 (lines 69-91).
CleanFrom5(table, general, s1, dp, s3, s4, s5) ==
  CleanResult(table, general, s1, dp, s3, s4, s5,
              BucketPass(TextPass(s5, TEXT_COLUMNS, 1)))

\* Step 4 (lines 62-67).
CleanFrom4(table, general, s1, dp, s3, s4) ==
  CleanFrom5(table, general, s1, dp, s3, s4,
             FillPass(s4, <<"cost", "marketing_spend">>, 1))

\* Step 3 (lines 51-60).
CleanFrom3(table, general, s1, dp, s3) ==
  CleanFrom4(table, general, s1, dp, s3, RequiredNullPass(s3))

\* Step 2 (lines 42-49).
CleanFrom2(table, general, s1, dp) ==
  CleanFrom3(table, general, s1, dp,
             NumericPass(dp.df, <<"revenue", "cost", "marketing_spend">>, 1))

\* Step 1 (lines 36-40).
CleanFrom1(table, general, s1) ==
  CleanFrom2(table, general, s1, DatePass(s1, general))

\* clean(df), given the result of the general date parse of step 2: the
\* clean table, the report, and the function's intermediate tables.
clean(table, general) == CleanFrom1(table, general, drop_duplicates(table))

\* The series the general parse of step 2 is applied to.
DateSeries(table) ==
  LET s1 == drop_duplicates(table)
  IN  IF HasCol(s1, "date") THEN Column(s1, "date") ELSE <<>>

(***************************************************************************)
(* aggregation.py.  groupby(key, sort=True).agg(...).reset_index(): one    *)
(* row per distinct non-missing key, the keys ascending.                   *)
(***************************************************************************)
\* The order of the characters (and one-token words) of the model's texts.
TOKEN_ORDER ==
  <<"-", "0", "1", "2", "3", "4", "5", "6", "7", "8", "9",
    "a", "b", "c", "unknown", "web">>

Rank(t) == CHOOSE i \in 1..Len(TOKEN_ORDER) : TOKEN_ORDER[i] = t

\* String comparison: at the first position where they differ, or the
\* shorter one when it is a prefix of the other.
StrLess(a, b) ==
  \/ \E i \in 1..Len(a) :
       /\ i <= Len(b)
       /\ \A j \in 1..(i - 1) : a[j] = b[j]
       /\ Rank(a[i]) < Rank(b[i])
  \/ /\ Len(a) < Len(b)
     /\ \A j \in 1..Len(a) : a[j] = b[j]

\* The order of two keys of one column: dates and numbers by value, texts
\* as strings.
CellLess(a, b) == IF a.k = "str" THEN StrLess(a.s, b.s) ELSE a.n < b.n

RECURSIVE SortedKeys(_)
SortedKeys(S) ==
  IF S = {} THEN <<>>
  ELSE LET least == CHOOSE x \in S : \A y \in S \ {x} : CellLess(x, y)
       IN  <<least>> \o SortedKeys(S \ {least})

GroupKeys(table, key) ==
  SortedKeys({Column(table, key)[i] : i \in 1..Len(table.rows)} \ {Null})

\* A group holding only the first row of its key.
GroupOfFirstRow(table, key, value) ==
  {i \in 1..Len(table.rows) :
     /\ Column(table, key)[i] = value
     /\ \A j \in 1..(i - 1) : Column(table, key)[j] # value}

GroupOf(table, key, value) ==
  {i \in 1..Len(table.rows) : Column(table, key)[i] = value}

RECURSIVE SumOver(_, _)
SumOver(series, rows) ==
  IF rows = {} THEN 0
  ELSE LET i == CHOOSE j \in rows : TRUE
       IN  (IF IsNa(series[i]) THEN 0 ELSE series[i].n) + SumOver(series, rows \ {i})

\* "count" counting the rows of the group, missing values too.
Aggregate1CountingRows(table, rows, col, how) ==
  CASE how = "sum" -> Num(SumOver(Column(table, col), rows))
    [] how = "count" -> Num(Cardinality(rows))
    [] how = "nunique" ->
         Num(Cardinality({Column(table, col)[i] : i \in rows} \ {Null}))

\* One aggregate of a group: "sum" skips missing values, "count" counts the
\* values that are not missing, "nunique" the distinct ones among them.
Aggregate1(table, rows, col, how) ==
  LET series == Column(table, col)
  IN  CASE how = "sum" -> Num(SumOver(series, rows))
        [] how = "count" -> Num(Cardinality({i \in rows : ~IsNa(series[i])}))
        [] how = "nunique" -> Num(Cardinality({series[i] : i \in rows} \ {Null}))

\* .agg(agg_dict) raises KeyError when a column of agg_dict is absent.
AggRaises(table, agg_dict) ==
  \E a \in 1..Len(agg_dict) : ~HasCol(table, agg_dict[a][1])

GroupAgg(table, key, agg_dict) ==
  LET keys == GroupKeys(table, key)
  IN  [ columns |-> <<key>> \o [a \in 1..Len(agg_dict) |-> agg_dict[a][1]],
        rows |-> [g \in 1..Len(keys) |->
                    <<keys[g]>> \o
                    [a \in 1..Len(agg_dict) |->
                       Aggregate1(table, GroupOf(table, key, keys[g]),
                                  agg_dict[a][1], agg_dict[a][2])]] ]

\* DataFrame.rename(columns=rename_map), rename_map a function of names.
RenameColumns(table, rename_map) ==
  [table EXCEPT !.columns =
     [c \in 1..Len(table.columns) |->
        IF table.columns[c] \in DOMAIN rename_map THEN rename_map[table.columns[c]]
        ELSE table.columns[c]]]

\* DataFrame.empty: no row or no column.
IsEmpty(table) == table.rows = <<>> \/ table.columns = <<>>

Returned(table) == [raised |-> FALSE, df |-> table]

Raised == [raised |-> TRUE, df |-> EmptyTable]

\* Lines 58-61 and 99-102: the average order value of each row.
WithAvgOrderValue(table) ==
  AddColumn(table, "avg_order_value",
    [r \in 1..Len(table.rows) |->
       round2(safe_divide(Column(table, "total_revenue")[r],
                          Column(table, "total_orders")[r], DEFAULT))])

\* The aggregates of the monthly summary without the optional ones.
MonthlyAggDictRequiredOnly(table) ==
  <<<<"revenue", "sum">>, <<"order_id", "count">>, <<"customer_id", "nunique">>>>

\* Lines 24-36.
MonthlyAggDict(table) ==
  <<<<"revenue", "sum">>, <<"order_id", "count">>, <<"customer_id", "nunique">>>>
  \o (IF HasCol(table, "cost") THEN <<<<"cost", "sum">>>> ELSE <<>>)
  \o (IF HasCol(table, "marketing_spend") THEN <<<<"marketing_spend", "sum">>>> ELSE <<>>)

\* Lines 45-53.
MONTHLY_RENAME ==
  [ revenue |-> "total_revenue", order_id |-> "total_orders",
    customer_id |-> "unique_customers", cost |-> "total_cost",
    marketing_spend |-> "total_marketing_spend" ]

\* build_monthly_summary(df): what it returns, or that it raises.
build_monthly_summary(table) ==
  IF ~HasCol(table, "year_month") \/ IsEmpty(table) THEN Returned(EmptyTable)
  ELSE IF AggRaises(table, MonthlyAggDict(table)) THEN Raised
  ELSE Returned(WithAvgOrderValue(
         RenameColumns(GroupAgg(table, "year_month", MonthlyAggDict(table)),
                       MONTHLY_RENAME)))

\* Lines 81-85.
SEGMENT_AGG_DICT ==
  <<<<"revenue", "sum">>, <<"order_id", "count">>, <<"customer_id", "nunique">>>>

\* Lines 91-96.
SegmentRename(segment_col) ==
  [n \in {segment_col, "revenue", "order_id", "customer_id"} |->
     CASE n = segment_col -> "segment"
       [] n = "revenue" -> "total_revenue"
       [] n = "order_id" -> "total_orders"
       [] n = "customer_id" -> "unique_customers"]

\* build_segment_summary up to line 102, before the sort.
SegmentGroups(table, segment_col) ==
  IF ~HasCol(table, segment_col) \/ IsEmpty(table) THEN Returned(EmptyTable)
  ELSE IF AggRaises(table, SEGMENT_AGG_DICT) THEN Raised
  ELSE Returned(WithAvgOrderValue(
         RenameColumns(GroupAgg(table, segment_col, SEGMENT_AGG_DICT),
                       SegmentRename(segment_col))))

RowOrders(n) ==
  {f \in [1..n -> 1..n] : \A i, j \in 1..n : i # j => f[i] # f[j]}

\* sort_values(by, ascending=False) sorts with kind="quicksort", which is
\* not stable: the rows come out in non-increasing order of the column, rows
\* of equal value in any order.
SortValuesDescending(table, by) ==
  IF table.rows = <<>> THEN {table}
  ELSE {[table EXCEPT !.rows = [i \in 1..Len(table.rows) |-> table.rows[f[i]]]] :
          f \in {g \in RowOrders(Len(table.rows)) :
                   \A i \in 1..(Len(table.rows) - 1) :
                     Column(table, by)[g[i]].n >= Column(table, by)[g[i + 1]].n}}

\* build_segment_summary(df, segment_col): the results it can return.
build_segment_summary(table, segment_col) ==
  IF SegmentGroups(table, segment_col).raised
     \/ IsEmpty(SegmentGroups(table, segment_col).df)
  THEN {SegmentGroups(table, segment_col)}
  ELSE {Returned(sorted) :
          sorted \in SortValuesDescending(SegmentGroups(table, segment_col).df,
                                          "total_revenue")}

\* Line 124.
DAILY_AGG_DICT == <<<<"revenue", "sum">>, <<"order_id", "count">>>>

\* Lines 126-129.
DAILY_RENAME == [revenue |-> "daily_revenue", order_id |-> "daily_orders"]

\* build_daily_summary(df).
build_daily_summary(table) ==
  IF ~HasCol(table, "date") \/ IsEmpty(table) THEN Returned(EmptyTable)
  ELSE IF AggRaises(table, DAILY_AGG_DICT) THEN Raised
  ELSE Returned(RenameColumns(GroupAgg(table, "date", DAILY_AGG_DICT), DAILY_RENAME))

(***************************************************************************)
(* kpi_engine.py.  The KPI mapping is a record of its fourteen entries.    *)
(***************************************************************************)
\* _empty_kpis without its last entry.
empty_kpis_short ==
  [ total_revenue |-> Num(0), total_orders |-> Num(0), unique_customers |-> Num(0),
    avg_order_value |-> Num(0), revenue_per_customer |-> Num(0),
    latest_month |-> Str(<<"N/A">>), latest_month_revenue |-> Num(0),
    mom_revenue_growth |-> NoneValue,
    total_cost |-> NoneValue, gross_margin |-> NoneValue,
    total_marketing_spend |-> NoneValue, roas |-> NoneValue,
    total_months |-> Num(0) ]

\* _empty_kpis (lines 83-100).
empty_kpis ==
  [ total_revenue |-> Num(0), total_orders |-> Num(0), unique_customers |-> Num(0),
    avg_order_value |-> Num(0), revenue_per_customer |-> Num(0),
    latest_month |-> Str(<<"N/A">>), latest_month_revenue |-> Num(0),
    mom_revenue_growth |-> NoneValue,
    total_cost |-> NoneValue, gross_margin |-> NoneValue,
    total_marketing_spend |-> NoneValue, roas |-> NoneValue,
    total_months |-> Num(0), orders_per_customer |-> Num(0) ]

AllRows(table) == 1..Len(table.rows)

ColumnSum(table, col) == Num(SumOver(Column(table, col), AllRows(table)))

ColumnNUnique(table, col) == Aggregate1(table, AllRows(table), col, "nunique")

LastCell(table, col) == Column(table, col)[Len(table.rows)]

\* Lines 46-51 giving 0 to a summary of one month.
MomGrowthZero(monthly) ==
  IF Len(monthly.rows) >= 2
  THEN round2(safe_pct_change(Column(monthly, "total_revenue")[Len(monthly.rows)],
                              Column(monthly, "total_revenue")[Len(monthly.rows) - 1],
                              DEFAULT))
  ELSE Dec(0)

\* Lines 46-51.
MomGrowth(monthly) ==
  IF Len(monthly.rows) >= 2
  THEN round2(safe_pct_change(Column(monthly, "total_revenue")[Len(monthly.rows)],
                              Column(monthly, "total_revenue")[Len(monthly.rows) - 1],
                              DEFAULT))
  ELSE NoneValue

\* Lines 26-78, the entries in the order they are computed.
KpisFrom(table, monthly, total_revenue, total_orders, unique_customers) ==
  [ total_revenue |-> total_revenue,
    total_orders |-> total_orders,
    unique_customers |-> unique_customers,
    avg_order_value |-> round2(safe_divide(total_revenue, total_orders, DEFAULT)),
    revenue_per_customer |-> round2(safe_divide(total_revenue, unique_customers, DEFAULT)),
    latest_month |-> IF Len(monthly.rows) >= 1 THEN LastCell(monthly, "year_month")
                     ELSE Str(<<"N/A">>),
    latest_month_revenue |-> IF Len(monthly.rows) >= 1
                             THEN round2(LastCell(monthly, "total_revenue"))
                             ELSE Num(0),
    mom_revenue_growth |-> MomGrowth(monthly),
    total_cost |-> IF HasCol(table, "cost") THEN round2(ColumnSum(table, "cost"))
                   ELSE NoneValue,
    gross_margin |-> IF HasCol(table, "cost")
                     THEN round2(Times100(safe_divide(
                            RatSub(total_revenue, ColumnSum(table, "cost")),
                            total_revenue, DEFAULT)))
                     ELSE NoneValue,
    total_marketing_spend |-> IF HasCol(table, "marketing_spend")
                              THEN round2(ColumnSum(table, "marketing_spend"))
                              ELSE NoneValue,
    roas |-> IF HasCol(table, "marketing_spend")
             THEN round2(safe_divide(total_revenue,
                           round2(ColumnSum(table, "marketing_spend")), DEFAULT))
             ELSE NoneValue,
    total_months |-> Num(Len(monthly.rows)),
    orders_per_customer |-> round2(safe_divide(total_orders, unique_customers, DEFAULT)) ]

\* compute_kpis without the guard of lines 22-23.
compute_kpis_unguarded(table, monthly) ==
  IF ~HasCol(table, "revenue") THEN [raised |-> TRUE, kpis |-> empty_kpis]
  ELSE [ raised |-> FALSE,
         kpis |-> KpisFrom(table, monthly,
                    round2(ColumnSum(table, "revenue")),
                    IF HasCol(table, "order_id") THEN ColumnNUnique(table, "order_id")
                    ELSE Num(Len(table.rows)),
                    IF HasCol(table, "customer_id") THEN ColumnNUnique(table, "customer_id")
                    ELSE Num(0)) ]

\* compute_kpis(clean_df, monthly_df): the mapping it returns, or that it
\* raises (KeyError at line 26 on a table without revenue).
compute_kpis(table, monthly) ==
  IF IsEmpty(table) \/ IsEmpty(monthly) THEN [raised |-> FALSE, kpis |-> empty_kpis]
  ELSE IF ~HasCol(table, "revenue") THEN [raised |-> TRUE, kpis |-> empty_kpis]
  ELSE [ raised |-> FALSE,
         kpis |-> KpisFrom(table, monthly,
                    round2(ColumnSum(table, "revenue")),
                    IF HasCol(table, "order_id") THEN ColumnNUnique(table, "order_id")
                    ELSE Num(Len(table.rows)),
                    IF HasCol(table, "customer_id") THEN ColumnNUnique(table, "customer_id")
                    ELSE Num(0)) ]

(***************************************************************************)
(* Objects.  A stage receives a reference to the caller's table: heap is   *)
(* the sequence of the table objects of a call (the table an object holds, *)
(* and whether the call has written to it), heap[1] the caller's, and id   *)
(* the object the stage's local name df is bound to.                       *)
(***************************************************************************)
\* No copy: the local name stays bound to the caller's object.
DataFrameAlias(heap, id) == [heap |-> heap, id |-> id]

\* df = df.copy(): the name is bound to a new object of the same content.
DataFrameCopy(heap, id) ==
  [ heap |-> Append(heap, [table |-> heap[id].table, written |-> FALSE]),
    id |-> Len(heap) + 1 ]

\* df = <the table an operation returned>: the name is bound to a new object.
Rebind(st, table) ==
  [ heap |-> Append(st.heap, [table |-> table, written |-> FALSE]),
    id |-> Len(st.heap) + 1 ]

\* df.columns = ..., df[col] = ...: the object the name is bound to changes.
Write(st, table) ==
  [ heap |-> [st.heap EXCEPT ![st.id] = [table |-> table, written |-> TRUE]],
    id |-> st.id ]

\* The operations of a stage on the table its name df is bound to.
Copy == [op |-> "copy", table |-> EmptyTable]

Assign(table) == [op |-> "write", table |-> table]

Bind(table) == [op |-> "rebind", table |-> table]

ApplyOp(o, st) ==
  CASE o.op = "copy" -> DataFrameCopy(st.heap, st.id)
    [] o.op = "write" -> Write(st, o.table)
    [] o.op = "rebind" -> Rebind(st, o.table)

\* The objects after the operations ops[i], ops[i + 1], ...
RECURSIVE ApplyOps(_, _, _)
ApplyOps(ops, i, st) ==
  IF i > Len(ops) THEN st
  ELSE CHOOSE result \in
         {ApplyOps(ops, i + 1, next) : next \in {ApplyOp(ops[i], st)}} : TRUE

\* The objects of a call that is given table and runs ops.
ObjectsAfter(table, ops) ==
  ApplyOps(ops, 1, [heap |-> <<[table |-> table, written |-> FALSE]>>, id |-> 1])

\* detect_and_map(df) returning r: lines 23, 24, 27 and 45-46.
detect_and_map_objects(table, r) ==
  ObjectsAfter(table,
    << Copy,
       Assign([table EXCEPT !.columns =
                 [i \in 1..Len(table.columns) |-> normalize_col_name(table.columns[i])]]),
       Assign([table EXCEPT !.columns = NormalizedColumns(table)]) >>
    \o (IF DOMAIN r.rename_map # {} THEN <<Bind(r.df)>> ELSE <<>>))

\* clean(df) returning r: line 34, then the steps 1 to 8, each assignment to
\* a column of df a write, each df = ... a new object.
clean_objects(table, r) ==
  ObjectsAfter(table,
    <<Copy>>
    \o (IF HasCol(table, "order_id") THEN <<Bind(r.locals.deduped)>> ELSE <<>>)
    \o (IF HasCol(table, "date")
        THEN << Assign(SetColumn(r.locals.deduped, "date", r.locals.converted)),
                Bind(r.locals.dated) >>
        ELSE <<>>)
    \o <<Assign(r.locals.numeric)>>
    \o (IF RequiredPresent(r.locals.numeric) # <<>>
        THEN <<Bind(r.locals.required)>> ELSE <<>>)
    \o << Assign(TextPass(FillPass(r.locals.required, <<"cost", "marketing_spend">>, 1),
                          TEXT_COLUMNS, 1)) >>
    \o (IF HasCol(table, "date") THEN <<Assign(r.df)>> ELSE <<>>)
    \o <<Bind(r.df)>>)

(***************************************************************************)
(* Inputs.                                                                 *)
(***************************************************************************)
RECURSIVE SeqsOfLen(_, _)
\* The sequences over S of length n, and of length at most n.
SeqsOfLen(S, n) ==
  IF n = 0 THEN {<<>>}
  ELSE {Append(q, x) : q \in SeqsOfLen(S, n - 1), x \in S}

SeqsUpTo(S, n) == UNION {SeqsOfLen(S, k) : k \in 0..n}

\* Raw header texts: canonical names, aliases in other spellings, a name
\* that collides with another after normalization, a name that already
\* carries a numeric suffix (which no alias list knows).
RAW_NAMES ==
  { <<"date">>, <<"Order", " ", "ID">>, <<"customer_id">>, <<"revenue">>,
    <<" ", "Revenue">>, <<"SALES">>, <<"amount">>, <<"total_cost">>,
    <<"revenue_1">>, <<"cost">> }

RawHeaders(n) == SeqsUpTo(RAW_NAMES, n)

\* Date texts: ISO, day-first only, day/month ambiguous, month-first only,
\* slashes, month names, no date at all.
ISO_DATE == Str(<<"2024", "-", "03", "-", "05">>)

DMY_DATE == Str(<<"25", "-", "04", "-", "2024">>)

AMBIGUOUS_DATE == Str(<<"05", "-", "04", "-", "2024">>)

MDY_DATE == Str(<<"03", "-", "25", "-", "2023">>)

SLASH_DATE == Str(<<"25", "/", "03", "/", "2024">>)

NAMED_DATE == Str(<<"05", " ", "Mar", " ", "2024">>)

BAD_DATE == Str(<<"soon">>)

DATE_CELLS ==
  {ISO_DATE, DMY_DATE, AMBIGUOUS_DATE, MDY_DATE, SLASH_DATE, NAMED_DATE, BAD_DATE, Null}

MONEY_1200 == Str(<<"$", "1", ",", "2", "0", "0">>)

MONEY_NEG == Str(<<"-", "5">>)

MONEY_BAD == Str(<<"n/a">>)

\* The cells a column of a mapped table may hold, by column.
CellsOf(col) ==
  CASE col = "date" -> {ISO_DATE, DMY_DATE, BAD_DATE, Null}
    [] col = "order_id" -> {Str(<<"A">>), Str(<<"B">>), Null}
    [] col = "customer_id" -> {Str(<<"c1">>), Null}
    [] col = "revenue" -> {MONEY_1200, MONEY_NEG, MONEY_BAD, Null}
    [] col = "cost" -> {Str(<<"7">>), Null}
    [] col = "marketing_spend" -> {Str(<<"3">>), Null}
    [] col = "device" -> {Str(<<>>), Str(<<" ">>), Str(<<" ", "Web">>), Null}
    [] OTHER -> {Str(<<" ", "Web">>), Null}

RECURSIVE RowsOver(_)
\* The rows of a table with the given columns.
RowsOver(columns) ==
  IF columns = <<>> THEN {<<>>}
  ELSE {<<c>> \o r : c \in CellsOf(Head(columns)), r \in RowsOver(Tail(columns))}

TablesOver(columns, n) ==
  {[columns |-> columns, rows |-> rs] : rs \in SeqsUpTo(RowsOver(columns), n)}

RECURSIVE SubSeqs(_)
\* The subsequences of s, order kept.
SubSeqs(s) ==
  IF s = <<>> THEN {<<>>}
  ELSE LET rest == SubSeqs(Tail(s))
       IN  rest \cup {<<Head(s)>> \o r : r \in rest}

\* Mapped tables: every choice of required columns, and two with optional ones.
MappedHeaders ==
  SubSeqs(REQUIRED_COLUMNS)
    \cup {<<"date", "revenue", "cost", "channel">>,
          <<"order_id", "revenue", "marketing_spend">>,
          <<"order_id", "device">>}

MappedTables(n) == UNION {TablesOver(h, n) : h \in MappedHeaders}

\* Raw tables of the workflow: a header (raw text and the canonical column
\* whose kind of data it holds) and rows.
WORKFLOW_HEADERS ==
  { << <<"date">>, <<"order_id">>, <<"customer_id">>, <<"revenue">> >>,
    << <<"Order", " ", "Date">>, <<"Order", " ", "ID">>, <<"user_id">>, <<"SALES">> >>,
    << <<"date">>, <<"order_id">>, <<"customer_id">>, <<"notes">> >>,
    << <<"SALES">>, <<"Order", " ", "ID">>, <<"revenue_1">> >> }

WorkflowCells(name) ==
  LET col == normalize_col_name(name) IN
  CASE col \in {"date", "order_date"} -> {ISO_DATE, BAD_DATE}
    [] col = "order_id" -> {Str(<<"A">>), Str(<<"B">>)}
    [] col \in {"revenue", "sales"} -> {MONEY_1200, MONEY_BAD}
    [] OTHER -> {Str(<<"c1">>)}

RECURSIVE WorkflowRows(_)
WorkflowRows(header) ==
  IF header = <<>> THEN {<<>>}
  ELSE {<<c>> \o r : c \in WorkflowCells(Head(header)), r \in WorkflowRows(Tail(header))}

WorkflowTables(n) ==
  UNION {{[columns |-> h, rows |-> rs] : rs \in SeqsUpTo(WorkflowRows(h), n)}
           : h \in WORKFLOW_HEADERS}

(***************************************************************************)
(* State.                                                                  *)
(***************************************************************************)
NoReport ==
  [ original_rows |-> 0, duplicates_removed |-> 0, null_rows_dropped |-> 0,
    invalid_dates |-> 0, invalid_revenue |-> 0, negative_revenue |-> 0,
    text_normalized |-> 0, final_rows |-> 0 ]

NoLocals ==
  [ input |-> EmptyTable, deduped |-> EmptyTable, general |-> <<>>,
    converted |-> <<>>, swept |-> FALSE, dated |-> EmptyTable,
    numeric |-> EmptyTable, required |-> EmptyTable ]

\* The lists of config.py that the stages read.
CONFIG ==
  [ REQUIRED_COLUMNS |-> REQUIRED_COLUMNS,
    OPTIONAL_COLUMNS |-> OPTIONAL_COLUMNS,
    COLUMN_ALIASES |-> COLUMN_ALIASES,
    CURRENCY_SYMBOLS |-> CURRENCY_SYMBOLS,
    DATE_FORMATS |-> DATE_FORMATS,
    TEXT_COLUMNS |-> TEXT_COLUMNS ]

\* No KPI mapping yet.
NoKpis == [unset |-> NoneValue]

Blank ==
  /\ mapped_df = EmptyTable
  /\ mapping = <<>>
  /\ missing_required = <<>>
  /\ clean_df = EmptyTable
  /\ cleaning_report = NoReport
  /\ cl = NoLocals
  /\ calls = <<>>
  /\ monthly_df = EmptyTable
  /\ kpis = NoKpis
  /\ ret = NoneValue
  /\ config = CONFIG

\* Line 125 stopping only when no required column at all was found.
MissingHaltsWhenAllMissing(missing) == Len(missing) = Len(REQUIRED_COLUMNS)

\* app.py line 125: the workflow stops when a required column is missing.
MissingHalts(missing) == missing # <<>>

\* Line 145 testing only for a table without columns.
EmptyHaltsWhenNoColumns(table) == table.columns = <<>>

\* app.py line 145: the workflow stops when the clean table is empty.
EmptyHalts(table) == table.rows = <<>>

(***************************************************************************)
(* The workflow of app.py.                                                 *)
(***************************************************************************)
Init ==
  /\ pc = "start"
  /\ df \in WorkflowTables(MaxRows)
  /\ Blank

\* app.py line 117.
DetectAndMap ==
  /\ pc = "start"
  /\ \E r \in {detect_and_map(df)} :
       /\ mapped_df' = r.df
       /\ mapping' = r.mapping
       /\ missing_required' = r.missing_required
       /\ df' = detect_and_map_objects(df, r).heap[1].table
  /\ config' = [config EXCEPT !.REQUIRED_COLUMNS =
                  ListAdd(config.REQUIRED_COLUMNS, config.OPTIONAL_COLUMNS).left]
  /\ pc' = "mapped"
  /\ calls' = Append(calls, "detect_and_map")
  /\ UNCHANGED <<clean_df, cleaning_report, cl,
                 monthly_df, kpis, ret>>

\* app.py lines 125-131: st.stop().
StopMissing ==
  /\ pc = "mapped"
  /\ MissingHalts(missing_required)
  /\ pc' = "stopped"
  /\ UNCHANGED <<config, df, mapped_df, mapping, missing_required, clean_df,
                 cleaning_report, cl, calls,
                 monthly_df, kpis, ret>>

\* A call of data_cleaning.clean on mapped_df.
DoClean ==
  \E general \in GeneralParses(DateSeries(mapped_df)) :
    \E r \in {clean(mapped_df, general)} :
      /\ clean_df' = r.df
      /\ cleaning_report' = r.report
      /\ cl' = r.locals
      /\ mapped_df' = clean_objects(mapped_df, r).heap[1].table
      /\ calls' = Append(calls, "clean")
      /\ UNCHANGED <<config, df, mapping, missing_required,
                 monthly_df, kpis, ret>>

\* app.py line 135.
Clean ==
  /\ pc = "mapped"
  /\ ~MissingHalts(missing_required)
  /\ DoClean
  /\ pc' = "cleaned"

\* app.py lines 145-147: st.stop().
StopEmpty ==
  /\ pc = "cleaned"
  /\ EmptyHalts(clean_df)
  /\ pc' = "stopped"
  /\ UNCHANGED <<config, df, mapped_df, mapping, missing_required, clean_df,
                 cleaning_report, cl, calls,
                 monthly_df, kpis, ret>>

\* app.py line 151.
Aggregate ==
  /\ pc = "cleaned"
  /\ ~EmptyHalts(clean_df)
  /\ monthly_df' = build_monthly_summary(clean_df).df
  /\ pc' = IF build_monthly_summary(clean_df).raised THEN "error" ELSE "aggregated"
  /\ calls' = Append(calls, "build_monthly_summary")
  /\ UNCHANGED <<config, df, mapped_df, mapping, missing_required, clean_df,
                 cleaning_report, cl, kpis, ret>>

\* app.py line 152.
ComputeKpis ==
  /\ pc = "aggregated"
  /\ kpis' = compute_kpis(clean_df, monthly_df).kpis
  /\ pc' = IF compute_kpis(clean_df, monthly_df).raised THEN "error" ELSE "kpis"
  /\ calls' = Append(calls, "compute_kpis")
  /\ UNCHANGED <<config, df, mapped_df, mapping, missing_required, clean_df,
                 cleaning_report, cl, monthly_df, ret>>

\* app.py lines 199-307: the tabs.
RenderTabs ==
  /\ pc = "kpis"
  /\ pc' = "done"
  /\ calls' = Append(calls, "render_tabs")
  /\ UNCHANGED <<config, df, mapped_df, mapping, missing_required, clean_df,
                 cleaning_report, cl,
                 monthly_df, kpis, ret>>

Next ==
  \/ DetectAndMap
  \/ StopMissing
  \/ Clean
  \/ StopEmpty
  \/ Aggregate
  \/ ComputeKpis
  \/ RenderTabs

Spec == Init /\ [][Next]_vars

(***************************************************************************)
(* detect_and_map on any header.                                           *)
(***************************************************************************)
InitMap ==
  /\ pc = "start"
  /\ df \in {[columns |-> h, rows |-> <<>>] : h \in RawHeaders(MaxCols)}
  /\ Blank

NextMap == DetectAndMap

SpecMap == InitMap /\ [][NextMap]_vars

(***************************************************************************)
(* clean on any mapped table.                                              *)
(***************************************************************************)
InitClean ==
  /\ pc = "clean_in"
  /\ df = EmptyTable
  /\ mapped_df \in MappedTables(MaxRows)
  /\ mapping = <<>>
  /\ missing_required = <<>>
  /\ clean_df = EmptyTable
  /\ cleaning_report = NoReport
  /\ cl = NoLocals
  /\ calls = <<>>
  /\ monthly_df = EmptyTable
  /\ kpis = NoKpis
  /\ ret = NoneValue
  /\ config = CONFIG

CleanCall ==
  /\ pc = "clean_in"
  /\ DoClean
  /\ pc' = "clean_out"

NextClean == CleanCall

SpecClean == InitClean /\ [][NextClean]_vars

(***************************************************************************)
(* _convert_dates on any series of date cells.                             *)
(***************************************************************************)
MaxSeries == 3

InitDates ==
  /\ pc = "dates_in"
  /\ df = EmptyTable
  /\ mapped_df \in {[columns |-> <<"date">>, rows |-> rs] :
                      rs \in SeqsUpTo({<<c>> : c \in DATE_CELLS}, MaxSeries)}
  /\ mapping = <<>>
  /\ missing_required = <<>>
  /\ clean_df = EmptyTable
  /\ cleaning_report = NoReport
  /\ cl = NoLocals
  /\ calls = <<>>
  /\ monthly_df = EmptyTable
  /\ kpis = NoKpis
  /\ ret = NoneValue
  /\ config = CONFIG

ConvertDatesCall ==
  /\ pc = "dates_in"
  /\ \E general \in GeneralParses(Column(mapped_df, "date")) :
       LET r == convert_dates(Column(mapped_df, "date"), general) IN
         /\ cl' = [NoLocals EXCEPT !.general = general,
                                   !.converted = r.converted,
                                   !.swept = r.swept]
         /\ cleaning_report' = [NoReport EXCEPT !.invalid_dates = r.invalid_count]
  /\ pc' = "dates_out"
  /\ calls' = Append(calls, "_convert_dates")
  /\ UNCHANGED <<config, df, mapped_df, mapping, missing_required, clean_df,
                 monthly_df, kpis, ret>>

NextDates == ConvertDatesCall

SpecDates == InitDates /\ [][NextDates]_vars

(***************************************************************************)
(* The aggregations and compute_kpis on the clean tables of mapped tables  *)
(* whose dates are datetimes and whose amounts are numbers.                *)
(***************************************************************************)
MaxAggRows == 3

DEC_31 == Date(2023, 12, 31)

MAR_05 == Date(2024, 3, 5)

OCT_25 == Date(2024, 10, 25)

\* The headers of the mapped tables, each with the cells of its columns;
\* where order_id is left out of cells, the order_id of row i is the text
\* of i.
AGG_HEADERS ==
  << [ columns |-> <<"date", "order_id", "customer_id", "revenue">>,
       cells |-> [ date |-> {DEC_31, MAR_05, OCT_25},
                   customer_id |-> {Str(<<"c1">>)},
                   revenue |-> {Num(0), Num(1000), Num(1200)} ] ],
     [ columns |-> <<"date", "order_id", "customer_id", "revenue", "channel">>,
       cells |-> [ date |-> {MAR_05},
                   customer_id |-> {Str(<<"c1">>)},
                   revenue |-> {Num(100), Num(500), Num(50), Null},
                   channel |-> {Str(<<"a">>), Str(<<"b">>), Str(<<"c">>)} ] ],
     [ columns |-> <<"date", "order_id", "customer_id", "revenue", "cost",
                     "marketing_spend", "channel">>,
       cells |-> [ date |-> {MAR_05, OCT_25},
                   customer_id |-> {Str(<<"c1">>)},
                   revenue |-> {Num(1000)},
                   cost |-> {Num(400), Null},
                   marketing_spend |-> {Num(0), Num(100)},
                   channel |-> {Str(<<"Web">>)} ] ],
     [ columns |-> <<"date", "order_id", "customer_id", "revenue", "cost">>,
       cells |-> [ date |-> {MAR_05},
                   customer_id |-> {Str(<<"c1">>), Str(<<"c2">>)},
                   revenue |-> {Num(1000), Null},
                   cost |-> {Num(400)} ] ],
     [ columns |-> <<"date", "order_id", "customer_id", "channel">>,
       cells |-> [ date |-> {MAR_05, OCT_25},
                   customer_id |-> {Str(<<"c1">>)},
                   channel |-> {Str(<<"a">>), Str(<<"b">>)} ] ],
     [ columns |-> <<"date", "customer_id", "revenue", "channel">>,
       cells |-> [ date |-> {MAR_05, OCT_25},
                   customer_id |-> {Str(<<"c1">>)},
                   revenue |-> {Num(100), Num(500)},
                   channel |-> {Str(<<"a">>)} ] ],
     [ columns |-> <<"date", "order_id", "revenue", "channel">>,
       cells |-> [ date |-> {MAR_05, OCT_25},
                   revenue |-> {Num(100), Num(500)},
                   channel |-> {Str(<<"a">>)} ] ],
     [ columns |-> <<"order_id", "customer_id", "revenue", "channel">>,
       cells |-> [ customer_id |-> {Str(<<"c1">>)},
                   revenue |-> {Num(100), Num(500)},
                   channel |-> {Str(<<"a">>), Str(<<"b">>)} ] ],
     [ columns |-> <<"date", "order_id", "customer_id", "revenue">>,
       cells |-> [ date |-> {MAR_05, OCT_25},
                   order_id |-> {Str(<<"1">>), Str(<<"2">>), Null},
                   customer_id |-> {Str(<<"c1">>)},
                   revenue |-> {Num(100)} ] ] >>

\* The rows a header h admits at position i, built column by column.
RECURSIVE AggRowsAt(_, _, _)
AggRowsAt(h, i, c) ==
  IF c = 0 THEN {<<>>}
  ELSE {Append(r, v) :
          r \in AggRowsAt(h, i, c - 1),
          v \in IF h.columns[c] \in DOMAIN h.cells THEN h.cells[h.columns[c]]
                ELSE {Str(<<ToStr(i)>>)}}

RECURSIVE AggRowSeqs(_, _)
AggRowSeqs(h, n) ==
  IF n = 0 THEN {<<>>}
  ELSE {Append(rs, r) : rs \in AggRowSeqs(h, n - 1), r \in AggRowsAt(h, n, Len(h.columns))}

AggInputs(n) ==
  UNION {{[columns |-> AGG_HEADERS[h].columns, rows |-> rs] :
            rs \in UNION {AggRowSeqs(AGG_HEADERS[h], k) : k \in 0..n}} :
         h \in 1..Len(AGG_HEADERS)}

\* The columns build_segment_summary is called with; no table has a region.
SEGMENT_COLS == {"channel", "region"}

InitAgg ==
  /\ pc = "agg_in"
  /\ df = EmptyTable
  /\ mapped_df \in AggInputs(MaxAggRows)
  /\ mapping = <<>>
  /\ missing_required = <<>>
  /\ clean_df = EmptyTable
  /\ cleaning_report = NoReport
  /\ cl = NoLocals
  /\ calls = <<>>
  /\ monthly_df = EmptyTable
  /\ kpis = NoKpis
  /\ ret = NoneValue
  /\ config = CONFIG

AggClean ==
  /\ pc = "agg_in"
  /\ DoClean
  /\ pc' = "agg_clean"

BuildMonthlySummary ==
  /\ pc = "agg_clean"
  /\ ret' = build_monthly_summary(clean_df)
  /\ monthly_df' = build_monthly_summary(clean_df).df
  /\ pc' = "monthly_out"
  /\ calls' = Append(calls, "build_monthly_summary")
  /\ UNCHANGED <<config, df, mapped_df, mapping, missing_required, clean_df,
                 cleaning_report, cl, kpis>>

ComputeKpisCall ==
  /\ pc = "monthly_out"
  /\ ~ret.raised
  /\ kpis' = compute_kpis(clean_df, monthly_df).kpis
  /\ pc' = IF compute_kpis(clean_df, monthly_df).raised THEN "error" ELSE "kpis_out"
  /\ calls' = Append(calls, "compute_kpis")
  /\ UNCHANGED <<config, df, mapped_df, mapping, missing_required, clean_df,
                 cleaning_report, cl, monthly_df, ret>>

BuildSegmentSummary ==
  /\ pc = "agg_clean"
  /\ \E segment_col \in SEGMENT_COLS :
       \E r \in build_segment_summary(clean_df, segment_col) :
         ret' = [raised |-> r.raised, df |-> r.df, segment_col |-> segment_col]
  /\ pc' = "segment_out"
  /\ calls' = Append(calls, "build_segment_summary")
  /\ UNCHANGED <<config, df, mapped_df, mapping, missing_required, clean_df,
                 cleaning_report, cl, monthly_df, kpis>>

BuildDailySummary ==
  /\ pc = "agg_clean"
  /\ ret' = build_daily_summary(clean_df)
  /\ pc' = "daily_out"
  /\ calls' = Append(calls, "build_daily_summary")
  /\ UNCHANGED <<config, df, mapped_df, mapping, missing_required, clean_df,
                 cleaning_report, cl, monthly_df, kpis>>

NextAgg ==
  \/ AggClean
  \/ BuildMonthlySummary
  \/ ComputeKpisCall
  \/ BuildSegmentSummary
  \/ BuildDailySummary

SpecAgg == InitAgg /\ [][NextAgg]_vars

(***************************************************************************)
(* safe_divide and safe_pct_change on any values.                          *)
(***************************************************************************)
MATH_VALUES ==
  { NoneValue, Null, Str(<<"a">>), Num(0), Dec(0), Num(3), Num(0 - 4),
    Dec(250), Num(1000), Num(1200) }

MATH_DEFAULTS == {DEFAULT, NoneValue, Num(0 - 1)}

InitMath ==
  /\ pc = "math_in"
  /\ df = EmptyTable
  /\ Blank

SafeDivideCall ==
  /\ pc = "math_in"
  /\ \E numerator \in MATH_VALUES, denominator \in MATH_VALUES,
        default \in MATH_DEFAULTS :
       ret' = [ numerator |-> numerator, denominator |-> denominator,
                default |-> default,
                result |-> safe_divide(numerator, denominator, default) ]
  /\ pc' = "safe_divide_out"
  /\ calls' = Append(calls, "safe_divide")
  /\ UNCHANGED <<config, df, mapped_df, mapping, missing_required, clean_df,
                 cleaning_report, cl, monthly_df, kpis>>

SafePctChangeCall ==
  /\ pc = "math_in"
  /\ \E new_val \in MATH_VALUES, old_val \in MATH_VALUES, default \in MATH_DEFAULTS :
       ret' = [ new_val |-> new_val, old_val |-> old_val, default |-> default,
                result |-> safe_pct_change(new_val, old_val, default) ]
  /\ pc' = "safe_pct_change_out"
  /\ calls' = Append(calls, "safe_pct_change")
  /\ UNCHANGED <<config, df, mapped_df, mapping, missing_required, clean_df,
                 cleaning_report, cl, monthly_df, kpis>>

NextMath == SafeDivideCall \/ SafePctChangeCall

SpecMath == InitMath /\ [][NextMath]_vars

(***************************************************************************)
(* Properties of detect_and_map (SpecMap).                                 *)
(***************************************************************************)
Mapped == pc = "mapped"

\* The normalized, de-duplicated names of the raw columns.
RawColumns == NormalizedColumns(df)

PositionIn(x, q) == CHOOSE i \in 1..Len(q) : q[i] = x

\* The source names bound to the fields resolved before standard_col.
BoundBefore(standard_col, m) ==
  {m[i][2] : i \in {k \in 1..Len(m) :
     PositionIn(m[k][1], all_standard) < PositionIn(standard_col, all_standard)}}

\* The positions, in the alias list of standard_col, of the aliases that are
\* among the columns cols and not bound to an earlier field.
Candidates(standard_col, cols, m) ==
  {j \in 1..Len(AliasesOf(standard_col)) :
     /\ InSeq(AliasesOf(standard_col)[j], cols)
     /\ AliasesOf(standard_col)[j] \notin BoundBefore(standard_col, m)}

Least(S) == CHOOSE j \in S : \A k \in S : j <= k

\* C1: the fields are resolved required-then-optional in declared order, each
\* bound to the first alias of its list that is a raw column not yet bound
\* (and left unbound when there is none); with both revenue and sales among
\* the columns, revenue is bound to revenue.
C1_AliasPriority ==
  Mapped =>
    \A cols \in {RawColumns} :
      /\ \A i, j \in 1..Len(mapping) :
           i < j => PositionIn(mapping[i][1], all_standard)
                      < PositionIn(mapping[j][1], all_standard)
      /\ \A f \in 1..Len(all_standard) :
           \A cand \in {Candidates(all_standard[f], cols, mapping)} :
             IF cand = {}
             THEN all_standard[f] \notin MappingKeys(mapping)
             ELSE /\ all_standard[f] \in MappingKeys(mapping)
                  /\ MappingGet(mapping, all_standard[f])
                       = AliasesOf(all_standard[f])[Least(cand)]
      /\ (InSeq("revenue", cols) /\ InSeq("sales", cols))
           => MappingGet(mapping, "revenue") = "revenue"

C1_Witness ==
  /\ Mapped
  /\ InSeq("revenue", RawColumns)
  /\ InSeq("sales", RawColumns)
  /\ PositionIn("sales", RawColumns) < PositionIn("revenue", RawColumns)
  /\ MappingGet(mapping, "revenue") = "revenue"
  /\ InSeq("sales", mapped_df.columns)

Occurrences(x, q) == Cardinality({i \in 1..Len(q) : q[i] = x})

\* C2: the mapping is injective: no canonical field is bound twice, no source
\* column is bound to two fields, every bound source name is the name of
\* exactly one raw column, and after renaming every bound canonical name is
\* the name of exactly one column of the mapped table.
C2_Injective ==
  Mapped =>
    /\ \A i, j \in 1..Len(mapping) :
         i # j => mapping[i][1] # mapping[j][1] /\ mapping[i][2] # mapping[j][2]
    /\ \A i \in 1..Len(mapping) :
         /\ Occurrences(mapping[i][2], RawColumns) = 1
         /\ Occurrences(mapping[i][1], mapped_df.columns) = 1
    /\ Cardinality(MappingValues(mapping)) <= Cardinality(MappingKeys(mapping))

\* Two aliases of one field present, a column bound under its own name and
\* a colliding name that was given a suffix.
C2_Witness ==
  /\ Mapped
  /\ InSeq("sales", RawColumns)
  /\ InSeq("amount", RawColumns)
  /\ InSeq("date", RawColumns)
  /\ Len(mapping) = 2
  /\ MappingGet(mapping, "revenue") = "sales"
  /\ MappingGet(mapping, "date") = "date"
  /\ InSeq("amount", mapped_df.columns)

HasAliasAmong(standard_col, cols) ==
  \E j \in 1..Len(AliasesOf(standard_col)) : InSeq(AliasesOf(standard_col)[j], cols)

\* C3: missing_required lists, in declared order, exactly the required fields
\* that received no binding (those none of whose aliases is a raw column); it
\* is empty iff all four required fields are bound.
C3_MissingRequired ==
  Mapped =>
    /\ \A cols \in {RawColumns} :
         missing_required
           = SelectSeq(REQUIRED_COLUMNS, LAMBDA c : ~HasAliasAmong(c, cols))
    /\ \A r \in 1..Len(REQUIRED_COLUMNS) :
         InSeq(REQUIRED_COLUMNS[r], missing_required)
           <=> REQUIRED_COLUMNS[r] \notin MappingKeys(mapping)
    /\ (missing_required = <<>>)
         <=> {"date", "order_id", "customer_id", "revenue"} \subseteq MappingKeys(mapping)

\* All four required fields bound, revenue through an alias.
C3_Witness ==
  /\ Mapped
  /\ missing_required = <<>>
  /\ Len(mapping) = 4
  /\ MappingGet(mapping, "revenue") = "sales"
  /\ MappingGet(mapping, "order_id") = "order_id"

\* Every raw column name is the name of a canonical field.
RawCanonical ==
  \A i \in 1..Len(df.columns) :
    \E f \in 1..Len(all_standard) : df.columns[i] = <<all_standard[f]>>

\* The mapped table as an input of detect_and_map.
MappedAsRaw ==
  [ columns |-> [i \in 1..Len(mapped_df.columns) |-> <<mapped_df.columns[i]>>],
    rows |-> mapped_df.rows ]

\* C26: when every raw column name is a canonical field name,
\* detect_and_map binds each canonical field among them to itself and no
\* other field, the alias step renames nothing (the columns keep their
\* normalized names, which are the raw names when no name occurs twice), and
\* detect_and_map on the mapped table gives the same mapping, the same
\* missing fields and the same column names.
C26_MappingIdempotence ==
  (Mapped /\ RawCanonical) =>
    /\ \A i \in 1..Len(mapping) : mapping[i][2] = mapping[i][1]
    /\ MappingKeys(mapping)
         = {all_standard[f] : f \in {g \in 1..Len(all_standard) :
                                       InSeq(<<all_standard[g]>>, df.columns)}}
    /\ mapped_df.columns = RawColumns
    /\ (\A i, j \in 1..Len(df.columns) : i # j => df.columns[i] # df.columns[j])
         => \A i \in 1..Len(df.columns) : df.columns[i] = <<mapped_df.columns[i]>>
    /\ detect_and_map(MappedAsRaw).mapping = mapping
    /\ detect_and_map(MappedAsRaw).missing_required = missing_required
    /\ detect_and_map(MappedAsRaw).df.columns = mapped_df.columns

\* The columns revenue, date and customer_id, each bound to itself.
C26_Witness ==
  /\ Mapped
  /\ df.columns = << <<"revenue">>, <<"date">>, <<"customer_id">> >>
  /\ mapping = << <<"date", "date">>, <<"customer_id", "customer_id">>,
                  <<"revenue", "revenue">> >>
  /\ mapped_df.columns = <<"revenue", "date", "customer_id">>
  /\ missing_required = <<"order_id">>

\* The normalized names of the raw columns, before de-duplication.
NormalizedNames ==
  [i \in 1..Len(df.columns) |-> normalize_col_name(df.columns[i])]

\* C27 as claimed: the list _deduplicate_columns returns for a list of
\* normalized names has the same length and order, leaves the first
\* occurrence of each name unchanged, and contains no two equal names.
C27_AsClaimed ==
  Mapped =>
    /\ Len(RawColumns) = Len(NormalizedNames)
    /\ \A i \in 1..Len(NormalizedNames) :
         SeenCount(NormalizedNames, i) = 0 => RawColumns[i] = NormalizedNames[i]
    /\ \A i, j \in 1..Len(RawColumns) : i # j => RawColumns[i] # RawColumns[j]

(***************************************************************************)
(* Properties of the workflow (Spec).                                      *)
(***************************************************************************)
LATER_STAGES == {"clean", "build_monthly_summary", "compute_kpis", "render_tabs"}

\* C4: in a run where missing_required is non-empty, the Cleaner and every
\* later stage are never invoked: the workflow is at the report of the
\* mapping or stopped.
C4_HaltOnMissing ==
  (pc # "start" /\ missing_required # <<>>) =>
    /\ pc \in {"mapped", "stopped"}
    /\ \A i \in 1..Len(calls) : calls[i] \notin LATER_STAGES

C4_Witness ==
  /\ pc = "stopped"
  /\ missing_required = <<"revenue">>
  /\ calls = <<"detect_and_map">>
  /\ clean_df = EmptyTable

\* The stage that runs in this step.
Calls(stage) == calls' = Append(calls, stage)

\* C24: no stage changes the table it is given or the shared configuration:
\* the raw table never changes, the mapped table only when detect_and_map
\* returns it, the clean table only when clean returns it, the monthly
\* summary only when build_monthly_summary returns it, and the lists of
\* config.py never; detect_and_map and clean return an object of their own
\* and write nothing to the one they are given.
C24_NoMutation ==
  [][ /\ Calls("detect_and_map") =>
           \E st \in {detect_and_map_objects(df, detect_and_map(df))} :
             st.id # 1 /\ ~st.heap[1].written
      /\ Calls("clean") =>
           \A general \in GeneralParses(DateSeries(mapped_df)) :
             \E st \in {clean_objects(mapped_df, clean(mapped_df, general))} :
               st.id # 1 /\ ~st.heap[1].written
      /\ df' = df
      /\ config' = config
      /\ mapped_df' # mapped_df => Calls("detect_and_map")
      /\ clean_df' # clean_df => Calls("clean")
      /\ monthly_df' # monthly_df => Calls("build_monthly_summary") ]_vars

\* A run through every stage in which each stage returned a table that
\* differs from the one it was given.
C24_Witness ==
  /\ pc = "kpis"
  /\ config = CONFIG
  /\ df.columns = << <<"Order", " ", "Date">>, <<"Order", " ", "ID">>,
                     <<"user_id">>, <<"SALES">> >>
  /\ mapped_df.columns = REQUIRED_COLUMNS
  /\ mapped_df.rows = df.rows
  /\ Len(mapped_df.rows) = 2
  /\ Column(mapped_df, "order_id") = <<Str(<<"A">>), Str(<<"A">>)>>
  /\ Column(mapped_df, "revenue")[1] = MONEY_1200
  /\ Len(clean_df.rows) = 1
  /\ Column(clean_df, "revenue") = <<Num(1200)>>
  /\ Len(monthly_df.rows) = 1
  /\ kpis.total_revenue = Dec(120000)

\* clean has returned a table of zero rows.
CleanedEmpty == InSeq("clean", calls) /\ clean_df.rows = <<>>

AFTER_CLEAN == {"build_monthly_summary", "compute_kpis", "render_tabs"}

\* C25: once clean has returned a table of zero rows the workflow can only
\* stop, and does: no stage is called after clean, nothing has raised, and
\* from the stop no step is taken; aggregation, KPI computation and the
\* tabs have run only in runs whose clean table has rows.
C25_EmptyIsTerminal ==
  /\ CleanedEmpty =>
       /\ pc \in {"cleaned", "stopped"}
       /\ calls = <<"detect_and_map", "clean">>
       /\ pc = "cleaned" =>
            /\ ENABLED StopEmpty
            /\ ~ENABLED Aggregate
       /\ pc = "stopped" => ~ENABLED Next
  /\ (\E i \in 1..Len(calls) : calls[i] \in AFTER_CLEAN) => clean_df.rows # <<>>

\* Two rows, neither date a date: the clean table is empty and the workflow
\* has stopped after clean.
C25_Witness ==
  /\ pc = "stopped"
  /\ missing_required = <<>>
  /\ Len(mapped_df.rows) = 2
  /\ Column(mapped_df, "date") = <<BAD_DATE, BAD_DATE>>
  /\ clean_df.rows = <<>>
  /\ cleaning_report.final_rows = 0
  /\ calls = <<"detect_and_map", "clean">>

(***************************************************************************)
(* Properties of clean (SpecClean).                                        *)
(***************************************************************************)
Cleaned == pc = "clean_out"

\* The input rows that are the first with their order_id (all rows when the
\* table has no order_id column), and the position of such a row in the
\* table after step 1.
InputFirsts ==
  IF HasCol(cl.input, "order_id")
  THEN {i \in 1..Len(cl.input.rows) :
          \A j \in 1..(i - 1) :
            Column(cl.input, "order_id")[j] # Column(cl.input, "order_id")[i]}
  ELSE 1..Len(cl.input.rows)

DedupedPosition(i) == Cardinality({j \in InputFirsts : j <= i})

\* The date the conversion of step 2 gave to input row i (a first row).
ConvertedDate(i) == cl.converted[DedupedPosition(i)]

DateKept(i) == HasCol(cl.input, "date") => ~IsNa(ConvertedDate(i))

\* The cell of column col that cleaning makes of input row i.
CleanedCell(i, col) ==
  CASE col = "year_month" -> year_month_of(ConvertedDate(i))
    [] col = "date" -> ConvertedDate(i)
    [] col = "revenue" -> clean_numeric_cell(Column(cl.input, col)[i])
    [] col \in {"cost", "marketing_spend"} ->
         IF IsNa(clean_numeric_cell(Column(cl.input, col)[i])) THEN Num(0)
         ELSE clean_numeric_cell(Column(cl.input, col)[i])
    [] InSeq(col, TEXT_COLUMNS) -> normalize_text_cell(Column(cl.input, col)[i])
    [] OTHER -> Column(cl.input, col)[i]

CleanedRow(i) ==
  [c \in 1..Len(clean_df.columns) |-> CleanedCell(i, clean_df.columns[c])]

\* Input row i is not a blank line: one of its required fields is not null.
RequiredKept(i) ==
  \A present \in {SelectSeq(REQUIRED_COLUMNS, LAMBDA c : HasCol(cl.input, c))} :
    present # <<>> => \E c \in 1..Len(present) : ~IsNa(CleanedCell(i, present[c]))

Survivors == {i \in InputFirsts : DateKept(i) /\ RequiredKept(i)}

\* C5: after clean() on a table with an order_id column, no two rows of the
\* clean table share an order_id.
C5_UniqueOrderId ==
  (Cleaned /\ HasCol(cl.input, "order_id")) =>
    /\ HasCol(clean_df, "order_id")
    /\ \A i, j \in 1..Len(clean_df.rows) :
         i # j => Column(clean_df, "order_id")[i] # Column(clean_df, "order_id")[j]

\* Two input rows share an order_id, both dates parse, one row remains.
C5_Witness ==
  /\ Cleaned
  /\ cl.input.columns = REQUIRED_COLUMNS
  /\ Len(cl.input.rows) = 2
  /\ Column(cl.input, "order_id") = <<Str(<<"A">>), Str(<<"A">>)>>
  /\ NaCount(cl.general) = 0
  /\ Len(clean_df.rows) = 1
  /\ cleaning_report.duplicates_removed = 1

OrderIdsShared ==
  {v \in {Column(cl.input, "order_id")[i] : i \in 1..Len(cl.input.rows)} :
     Cardinality({i \in 1..Len(cl.input.rows) : Column(cl.input, "order_id")[i] = v}) > 1}

FirstWith(v) ==
  Least({i \in 1..Len(cl.input.rows) : Column(cl.input, "order_id")[i] = v})

CleanRowsWith(v) ==
  SelectSeq(clean_df.rows, LAMBDA r : r[ColIdx(clean_df, "order_id")] = v)

\* C6 as claimed: for input rows sharing an order_id the clean table holds
\* exactly one row with that order_id, with the values of the first of them,
\* whatever the other fields of that first row are.
C6_AsClaimed ==
  (Cleaned /\ HasCol(cl.input, "order_id")) =>
    \A v \in OrderIdsShared : CleanRowsWith(v) = <<CleanedRow(FirstWith(v))>>

\* C6: for input rows sharing an order_id the clean table holds at most one
\* row with that order_id: the first of them in input order, with its cleaned
\* values, when that row survives the later passes (its date parses and its
\* required fields are not all null), and no row with that order_id when it
\* does not; the later rows never appear.
C6_DuplicateCollapse ==
  (Cleaned /\ HasCol(cl.input, "order_id")) =>
    \A v \in OrderIdsShared :
      CleanRowsWith(v) = IF FirstWith(v) \in Survivors
                         THEN <<CleanedRow(FirstWith(v))>>
                         ELSE <<>>

\* Two rows share order_id A with different revenues; the first is kept.
C6_Witness ==
  /\ Cleaned
  /\ cl.input.columns = REQUIRED_COLUMNS
  /\ Len(cl.input.rows) = 2
  /\ Column(cl.input, "order_id") = <<Str(<<"A">>), Str(<<"A">>)>>
  /\ Column(cl.input, "revenue") = <<MONEY_NEG, MONEY_1200>>
  /\ Len(clean_df.rows) = 1
  /\ Column(clean_df, "revenue") = <<Num(0 - 5)>>

\* The rows the date pass removed.
DroppedByDatePass == Len(cl.deduped.rows) - Len(cl.dated.rows)

NoNullDateLeft ==
  /\ \A i \in 1..Len(clean_df.rows) : ~IsNa(Column(clean_df, "date")[i])
  /\ Len(cl.dated.rows) = NotNaCount(cl.converted)

\* C8 as claimed: every row whose date stays unparsable is dropped, and the
\* number of rows the date pass drops is invalid_dates.
C8_AsClaimed ==
  (Cleaned /\ HasCol(cl.input, "date")) =>
    /\ NoNullDateLeft
    /\ DroppedByDatePass = cleaning_report.invalid_dates

\* C8: every row whose date is null after date normalization is dropped;
\* invalid_dates counts those of them whose input date was a value that did
\* not parse, so the rows dropped by the date pass number invalid_dates plus
\* the rows whose input date was missing.
C8_InvalidDates ==
  (Cleaned /\ HasCol(cl.input, "date")) =>
    /\ NoNullDateLeft
    /\ cleaning_report.invalid_dates
         = Cardinality({i \in 1..Len(cl.deduped.rows) :
                          /\ ~IsNa(Column(cl.deduped, "date")[i])
                          /\ IsNa(cl.converted[i])})
    /\ DroppedByDatePass
         = cleaning_report.invalid_dates + NaCount(Column(cl.deduped, "date"))

\* One row with an unparsable date text and one with a missing date.
C8_Witness ==
  /\ Cleaned
  /\ HasCol(cl.input, "date")
  /\ Column(cl.deduped, "date") = <<BAD_DATE, Null>>
  /\ cleaning_report.invalid_dates = 1
  /\ DroppedByDatePass = 2
  /\ clean_df.rows = <<>>

IsNegative(c) == c.k = "num" /\ c.n < 0

\* C9: no row is dropped for its negative revenue: the rows of negative
\* revenue of the clean table are those of the input that outlive the
\* duplicate and date passes; negative_revenue is their number; and
\* invalid_revenue counts only rows whose revenue is null.
C9_NegativeRetained ==
  (Cleaned /\ HasCol(cl.input, "revenue")) =>
    /\ cleaning_report.negative_revenue
         = Cardinality({r \in 1..Len(clean_df.rows) :
                          IsNegative(Column(clean_df, "revenue")[r])})
    /\ cleaning_report.negative_revenue
         = Cardinality({i \in InputFirsts :
                          DateKept(i) /\ IsNegative(CleanedCell(i, "revenue"))})
    /\ cleaning_report.invalid_revenue
         = Cardinality({i \in InputFirsts :
                          DateKept(i) /\ IsNa(CleanedCell(i, "revenue"))})

C9_Witness ==
  /\ Cleaned
  /\ cl.input.columns = REQUIRED_COLUMNS
  /\ Column(cl.input, "revenue") = <<MONEY_NEG, MONEY_BAD>>
  /\ Len(clean_df.rows) = 2
  /\ Column(clean_df, "revenue") = <<Num(0 - 5), Null>>
  /\ cleaning_report.negative_revenue = 1
  /\ cleaning_report.invalid_revenue = 1

\* The input rows whose revenue is a text that is no number (first rows).
Unconvertible ==
  {i \in InputFirsts : /\ ~IsNa(Column(cl.input, "revenue")[i])
                       /\ to_numeric(StripSymbols(AsStr(Column(cl.input, "revenue")[i]))) = Null}

\* Such a row with a valid date is in the clean table, with null revenue.
UnconvertibleKept ==
  HasCol(cl.input, "date") =>
    \A i \in Unconvertible :
      ~IsNa(ConvertedDate(i)) =>
        \E r \in 1..Len(clean_df.rows) :
          /\ clean_df.rows[r] = CleanedRow(i)
          /\ IsNa(Column(clean_df, "revenue")[r])

C11_ReportAccounting ==
  Cleaned =>
    /\ cleaning_report.original_rows = Len(cl.input.rows)
    /\ cleaning_report.original_rows
         = cleaning_report.duplicates_removed + cleaning_report.null_rows_dropped
           + cleaning_report.final_rows
    /\ cleaning_report.duplicates_removed
         = Len(cl.input.rows) - Cardinality(InputFirsts)
    /\ cleaning_report.null_rows_dropped = Cardinality(InputFirsts \ Survivors)
    /\ cleaning_report.final_rows = Len(clean_df.rows)
    /\ Len(clean_df.rows) = Cardinality(Survivors)

\* One row removed as a duplicate and one for its missing date.
C11_Witness ==
  /\ Cleaned
  /\ cl.input.columns = REQUIRED_COLUMNS
  /\ Len(cl.input.rows) = 2
  /\ Column(cl.input, "order_id") = <<Str(<<"A">>), Str(<<"A">>)>>
  /\ Column(cl.input, "date")[1] = Null
  /\ cleaning_report.duplicates_removed = 1
  /\ cleaning_report.null_rows_dropped = 1
  /\ cleaning_report.final_rows = 0

\* The input row that row r of the clean table was made of.
SurvivorAt(r) == CHOOSE i \in Survivors : Cardinality({j \in Survivors : j <= i}) = r

\* A text value that is trimmed and lowercase.
IsTrimmedLower(c) ==
  /\ c.k = "str"
  /\ Strip(c.s) = c.s
  /\ \A t \in 1..Len(c.s) : Lower(c.s[t]) = c.s[t]

\* An input value that is no meaningful text: missing, empty or whitespace.
IsBlankText(c) == IsNa(c) \/ (c.k = "str" /\ Strip(c.s) = <<>>)

\* C22 as claimed: after clean(), every value of a categorical column
\* (channel, region, category, device) of the table is trimmed and
\* lowercase, and the value made of a missing, empty or whitespace-only
\* input value is the sentinel "unknown".
C22_AsClaimed ==
  Cleaned =>
    \A c \in 1..Len(TEXT_COLUMNS) :
      HasCol(cl.input, TEXT_COLUMNS[c]) =>
        /\ HasCol(clean_df, TEXT_COLUMNS[c])
        /\ \A r \in 1..Len(clean_df.rows) :
             /\ IsTrimmedLower(Column(clean_df, TEXT_COLUMNS[c])[r])
             /\ IsBlankText(Column(cl.input, TEXT_COLUMNS[c])[SurvivorAt(r)])
                  => Column(clean_df, TEXT_COLUMNS[c])[r] = Str(<<"unknown">>)

\* The required fields the table has when step 4 runs.
PresentRequired ==
  {REQUIRED_COLUMNS[i] :
     i \in {j \in 1..Len(REQUIRED_COLUMNS) : HasCol(cl.numeric, REQUIRED_COLUMNS[j])}}

\* A row of the table step 4 runs on, all of whose present required fields
\* are null.
IsBlankLine(row) == \A c \in PresentRequired : IsNa(row[ColIdx(cl.numeric, c)])

\* C23: the required-null pass of clean() drops exactly the rows in which
\* every required field present in the table is null (as the values stand
\* after numeric normalization), keeps every row in which at least one
\* present required field is non-null, in order and unchanged, and drops
\* nothing from a table that has no required field.
C23_RequiredNullPass ==
  Cleaned =>
    /\ cl.required.columns = cl.numeric.columns
    /\ cl.required.rows
         = SelectSeq(cl.numeric.rows,
                     LAMBDA row : PresentRequired = {} \/ ~IsBlankLine(row))
    /\ Len(clean_df.rows) = Len(cl.required.rows)

\* A row whose customer_id is missing and whose revenue is no number is
\* dropped; a row that lacks only its revenue is kept.
C23_Witness ==
  /\ Cleaned
  /\ cl.input.columns = <<"customer_id", "revenue">>
  /\ cl.input.rows = << <<Null, MONEY_BAD>>, <<Str(<<"c1">>), Null>> >>
  /\ cl.numeric.rows = << <<Null, Null>>, <<Str(<<"c1">>), Null>> >>
  /\ cl.required.rows = << <<Str(<<"c1">>), Null>> >>
  /\ clean_df.rows = << <<Str(<<"c1">>), Null>> >>
  /\ cleaning_report.null_rows_dropped = 1

\* The value numeric normalization gives column col of input row i.
clean_numeric_cell_of(i, col) ==
  IF col = "revenue" THEN clean_numeric_cell(Column(cl.input, col)[i])
  ELSE Column(cl.input, col)[i]

\* The required fields other than the date that the table has.
RequiredButDate == PresentRequired \ {"date"}

\* A row of the table, in its columns, that has a date and no other
\* required field.
OnlyDated(table, row) ==
  /\ ~IsNa(row[ColIdx(table, "date")])
  /\ \A c \in RequiredButDate : IsNa(row[ColIdx(table, c)])

\* Input row i has no required field but its date, as its values stand after
\* numeric normalization.
OnlyDateGiven(i) ==
  \A c \in RequiredButDate : IsNa(clean_numeric_cell_of(i, c))

\* The date of input row i is valid: the conversion of step 2 gave it a
\* date or, for a row step 2 never saw, it is a date in one of DATE_FORMATS.
ReadAsDate(i) ==
  IF i \in InputFirsts THEN ~IsNa(ConvertedDate(i))
  ELSE \E f \in 1..Len(DATE_FORMATS) :
         ~IsNa(strptime(Column(cl.input, "date")[i], DATE_FORMATS[f]))

\* The rows of the clean table that have a date and no other required field.
OnlyDatedClean ==
  {r \in 1..Len(clean_df.rows) : OnlyDated(clean_df, clean_df.rows[r])}

\* Steps 2 and 4 on a table with a date column: every row the date pass
\* leaves has a date, step 4 removes none of them, and null_rows_dropped is
\* the number of rows the date pass removed.
RequiredPassIdle ==
  /\ \A r \in 1..Len(cl.dated.rows) : ~IsNa(Column(cl.dated, "date")[r])
  /\ cl.required = cl.numeric
  /\ Len(cl.required.rows) = Len(cl.dated.rows)
  /\ Len(clean_df.rows) = Len(cl.dated.rows)
  /\ cleaning_report.null_rows_dropped = DroppedByDatePass

\* C29 as claimed: with a date column the required-null pass removes no
\* row, null_rows_dropped counts rows dropped by the date pass, and every
\* input row whose order_id, customer_id and revenue are all null and whose
\* date is valid is in the clean table.
C29_AsClaimed ==
  (Cleaned /\ HasCol(cl.input, "date")) =>
    /\ RequiredPassIdle
    /\ Cardinality(OnlyDatedClean)
         = Cardinality({i \in 1..Len(cl.input.rows) :
                          OnlyDateGiven(i) /\ ReadAsDate(i)})

\* C29: with a date column the required-null pass removes no row, every
\* row the date pass leaves has a date, null_rows_dropped counts the rows
\* the date pass dropped, and the rows of the clean table with null
\* order_id, customer_id and revenue are the input rows with these fields
\* null that are the first with their order_id and have a valid date.
C29_RequiredPassIdle ==
  (Cleaned /\ HasCol(cl.input, "date")) =>
    /\ RequiredPassIdle
    /\ Cardinality(OnlyDatedClean)
         = Cardinality({i \in InputFirsts :
                          OnlyDateGiven(i) /\ ~IsNa(ConvertedDate(i))})
    /\ \A i \in InputFirsts :
         (OnlyDateGiven(i) /\ ~IsNa(ConvertedDate(i))) =>
           /\ i \in Survivors
           /\ OnlyDated(clean_df, clean_df.rows[Cardinality({j \in Survivors : j <= i})])

\* A dated row without order_id, customer_id or revenue is kept, and the
\* row dropped is the one whose date is no date.
C29_Witness ==
  /\ Cleaned
  /\ cl.input.columns = REQUIRED_COLUMNS
  /\ cl.input.rows = << <<ISO_DATE, Null, Null, MONEY_BAD>>,
                        <<BAD_DATE, Str(<<"A">>), Str(<<"c1">>), MONEY_1200>> >>
  /\ Len(cl.dated.rows) = 1
  /\ cl.required.rows = cl.numeric.rows
  /\ clean_df.rows[1][2] = Null /\ clean_df.rows[1][3] = Null /\ clean_df.rows[1][4] = Null
  /\ Len(clean_df.rows) = 1
  /\ cleaning_report.null_rows_dropped = 1

\* The input rows without an order_id, and the rows without one of a table.
NullIdInputs ==
  {i \in 1..Len(cl.input.rows) : IsNa(Column(cl.input, "order_id")[i])}

NullIdRows(table) ==
  SelectSeq(table.rows, LAMBDA row : IsNa(row[ColIdx(table, "order_id")]))

\* The order ids of the input that are not null.
GivenIds ==
  {Column(cl.input, "order_id")[i] : i \in 1..Len(cl.input.rows)} \ {Null}

\* C30: of the input rows whose order_id is null, step 1 keeps the first
\* and no other, the clean table holds at most that one (cleaned), and
\* duplicates_removed counts the others together with the repeats of the
\* order ids that are not null.
C30_NullOrderIdIsAKey ==
  (Cleaned /\ HasCol(cl.input, "order_id")) =>
    /\ NullIdRows(cl.deduped)
         = IF NullIdInputs = {} THEN <<>>
           ELSE <<cl.input.rows[Least(NullIdInputs)]>>
    /\ Len(NullIdRows(clean_df)) <= 1
    /\ NullIdRows(clean_df) # <<>> =>
         NullIdRows(clean_df) = <<CleanedRow(Least(NullIdInputs))>>
    /\ cleaning_report.duplicates_removed
         = (Cardinality(NullIdInputs) - Len(NullIdRows(cl.deduped)))
           + (Len(cl.input.rows) - Cardinality(NullIdInputs) - Cardinality(GivenIds))

\* Two dated rows without order_id: the first is in the clean table, the
\* second is counted as a duplicate.
C30_Witness ==
  /\ Cleaned
  /\ cl.input.columns = REQUIRED_COLUMNS
  /\ cl.input.rows = << <<ISO_DATE, Null, Str(<<"c1">>), MONEY_1200>>,
                        <<ISO_DATE, Null, Null, MONEY_NEG>> >>
  /\ Len(clean_df.rows) = 1
  /\ clean_df.rows[1][2] = Null
  /\ clean_df.rows[1][3] = Str(<<"c1">>)
  /\ cleaning_report.duplicates_removed = 1
  /\ cleaning_report.null_rows_dropped = 0

(***************************************************************************)
(* Properties of _convert_dates (SpecDates).                               *)
(***************************************************************************)
DatesDone == pc = "dates_out"

DateInput == Column(mapped_df, "date")

\* The parses _convert_dates chooses from when it sweeps: the general parse,
\* then one per explicit format, in the order of DATE_FORMATS.
ParseCandidates ==
  <<cl.general>> \o [f \in 1..Len(DATE_FORMATS) |-> ParseWith(DateInput, DATE_FORMATS[f])]

\* The earliest candidate of the greatest count of parsed values.
BestCandidate ==
  ParseCandidates[Least({i \in 1..Len(ParseCandidates) :
                           \A j \in 1..Len(ParseCandidates) :
                             NotNaCount(ParseCandidates[j]) <= NotNaCount(ParseCandidates[i])})]

\* Every value of the series is a text of the form DD-MM-YYYY.
UniformDayMonthYear ==
  /\ DateInput # <<>>
  /\ \A i \in 1..Len(DateInput) :
       /\ DateInput[i].k = "str"
       /\ ~IsNa(strptime(DateInput[i], <<"%d", "-", "%m", "-", "%Y">>))

\* C7: _convert_dates sweeps the explicit formats exactly when more than half
\* of the values are unparsed by the general parse; without a sweep it keeps
\* the general parse; with one it keeps the candidate of the greatest count of
\* parsed values, the earlier one on a tie; and a series uniformly DD-MM-YYYY
\* that is swept ends with no unparsable value.
C7_DateFallback ==
  DatesDone =>
    /\ cl.swept <=> 2 * NaCount(cl.general) > Len(DateInput)
    /\ ~cl.swept => cl.converted = cl.general
    /\ cl.swept => cl.converted = BestCandidate
    /\ (UniformDayMonthYear /\ cl.swept) =>
         /\ NaCount(cl.converted) = 0
         /\ cleaning_report.invalid_dates = 0

\* A uniform DD-MM-YYYY series of three values of which the general parse
\* reads one; the sweep recovers all three.
C7_Witness ==
  /\ DatesDone
  /\ DateInput = <<DMY_DATE, AMBIGUOUS_DATE, DMY_DATE>>
  /\ NaCount(cl.general) = 2
  /\ cl.swept
  /\ cl.converted = <<Date(2024, 4, 25), Date(2024, 4, 5), Date(2024, 4, 25)>>
  /\ cleaning_report.invalid_dates = 0

(***************************************************************************)
(* Properties of the aggregations and of compute_kpis (SpecAgg).           *)
(***************************************************************************)
MonthlyDone == pc = "monthly_out"

\* The clean table has the columns of a CleanTable.
HasRequiredColumns ==
  \A c \in 1..Len(REQUIRED_COLUMNS) : HasCol(clean_df, REQUIRED_COLUMNS[c])

\* The sum of a column of numbers, a missing value counting as 0.
RECURSIVE Total(_)
Total(series) ==
  IF series = <<>> THEN 0
  ELSE (IF IsNa(Head(series)) THEN 0 ELSE Head(series).n) + Total(Tail(series))

\* Every clean row belongs to exactly one row of the monthly summary.
MonthsPartitionRows ==
  \A i \in 1..Len(clean_df.rows) :
    Cardinality({m \in 1..Len(ret.df.rows) :
                   Column(ret.df, "year_month")[m] = Column(clean_df, "year_month")[i]}) = 1

Conservation ==
  /\ ~ret.raised
  /\ HasCol(ret.df, "total_revenue")
  /\ Total(Column(ret.df, "total_revenue")) = Total(Column(clean_df, "revenue"))
  /\ MonthsPartitionRows

\* C12 as claimed: for any non-empty clean table produced by clean(), the
\* total_revenue of the monthly summary sums to the revenue of the clean
\* table, no row lost or counted twice.
C12_AsClaimed ==
  (MonthlyDone /\ clean_df.rows # <<>>) => Conservation

\* C12: for any non-empty clean table that has the date, order_id,
\* customer_id and revenue columns, the total_revenue of the monthly summary
\* sums to the revenue of the clean table (null counting as 0) and every
\* clean row is in exactly one month; a clean table without a date column
\* has no year_month and gets an empty summary.
C12_Conservation ==
  (MonthlyDone /\ clean_df.rows # <<>>) =>
    /\ HasRequiredColumns => Conservation
    /\ ~HasCol(clean_df, "date") => (~ret.raised /\ ret.df = EmptyTable)

\* Three orders, two of them in one month, one of revenue 0.
C12_Witness ==
  /\ MonthlyDone
  /\ clean_df.columns = <<"date", "order_id", "customer_id", "revenue", "year_month">>
  /\ Column(clean_df, "date") = <<OCT_25, MAR_05, OCT_25>>
  /\ Column(clean_df, "revenue") = <<Num(1000), Num(0), Num(1200)>>
  /\ Column(ret.df, "total_revenue") = <<Num(0), Num(2200)>>

\* The months of the clean table's dates, as numbers year * 100 + month.
MonthNumber(c) == c.n \div 100

\* C13: build_monthly_summary returns one row per distinct year_month of the
\* clean table, in strictly ascending order of year_month, and that order is
\* the order of the months in time: the last row is the latest month.
C13_MonthlyOrder ==
  (MonthlyDone /\ ~ret.raised /\ ~IsEmpty(ret.df)) =>
    /\ {Column(ret.df, "year_month")[m] : m \in 1..Len(ret.df.rows)}
         = {Column(clean_df, "year_month")[i] : i \in 1..Len(clean_df.rows)}
    /\ \A m \in 1..(Len(ret.df.rows) - 1) :
         StrLess(Column(ret.df, "year_month")[m].s,
                 Column(ret.df, "year_month")[m + 1].s)
    /\ \A m, n \in 1..Len(ret.df.rows) :
         \A i, j \in 1..Len(clean_df.rows) :
           ( /\ m < n
             /\ Column(clean_df, "year_month")[i] = Column(ret.df, "year_month")[m]
             /\ Column(clean_df, "year_month")[j] = Column(ret.df, "year_month")[n] )
           => MonthNumber(Column(clean_df, "date")[i])
                < MonthNumber(Column(clean_df, "date")[j])
    /\ \A i \in 1..Len(clean_df.rows) :
         MonthNumber(Column(clean_df, "date")[i])
           <= MonthNumber(CHOOSE d \in {Column(clean_df, "date")[j] :
                                          j \in 1..Len(clean_df.rows)} :
                            year_month_of(d) = LastCell(ret.df, "year_month"))

\* October, December of the year before and March, in that input order.
C13_Witness ==
  /\ MonthlyDone
  /\ Column(clean_df, "date") = <<OCT_25, DEC_31, MAR_05>>
  /\ Column(ret.df, "year_month")
       = << Str(<<"2", "0", "2", "3", "-", "1", "2">>),
            Str(<<"2", "0", "2", "4", "-", "0", "3">>),
            Str(<<"2", "0", "2", "4", "-", "1", "0">>) >>

SegmentDone == pc = "segment_out"

DailyDone == pc = "daily_out"

\* The rows of the clean table in the month of row m of the summary.
MonthRows(m) ==
  {i \in 1..Len(clean_df.rows) :
     Column(clean_df, "year_month")[i] = Column(ret.df, "year_month")[m]}

\* C14 as claimed: total_orders of a month is the number of distinct order_id
\* values among the month's rows when the table has an order_id column, and
\* the number of the month's rows when it has none.
C14_AsClaimed ==
  ( /\ MonthlyDone
    /\ ~IsEmpty(clean_df)
    /\ HasCol(clean_df, "year_month")
    /\ HasCol(clean_df, "revenue")
    /\ HasCol(clean_df, "customer_id") ) =>
    /\ ~ret.raised
    /\ HasCol(ret.df, "total_orders")
    /\ \A m \in 1..Len(ret.df.rows) :
         Column(ret.df, "total_orders")[m]
           = Num(IF HasCol(clean_df, "order_id")
                 THEN Cardinality({Column(clean_df, "order_id")[i] : i \in MonthRows(m)}
                                  \ {Null})
                 ELSE Cardinality(MonthRows(m)))

\* Does the call that returned need a column the clean table lacks?
NeededColumnAbsent ==
  \E c \in (CASE MonthlyDone -> {"year_month", "revenue", "order_id", "customer_id"}
              [] SegmentDone -> {ret.segment_col, "revenue", "order_id", "customer_id"}
              [] DailyDone -> {"date", "revenue", "order_id"}) :
    ~HasCol(clean_df, c)

\* C15 as claimed: build_monthly_summary, build_segment_summary and
\* build_daily_summary return an empty result and do not raise when the
\* input is empty or a column they need is absent.
C15_AsClaimed ==
  ((MonthlyDone \/ SegmentDone \/ DailyDone)
     /\ (IsEmpty(clean_df) \/ NeededColumnAbsent)) =>
    /\ ~ret.raised
    /\ ret.df = EmptyTable

\* The position of a segment among the groups before the sort.
GroupPosition(segment) ==
  CHOOSE g \in 1..Len(SegmentGroups(clean_df, ret.segment_col).df.rows) :
    SegmentGroups(clean_df, ret.segment_col).df.rows[g][1] = segment

\* C16 as claimed: the rows of the segment summary are in non-increasing
\* order of total_revenue, segments of equal total_revenue in the order of
\* their groups before the sort.
C16_AsClaimed ==
  (SegmentDone /\ ~ret.raised /\ ~IsEmpty(ret.df)) =>
    \A i, j \in 1..Len(ret.df.rows) :
      i < j =>
        /\ Column(ret.df, "total_revenue")[i].n >= Column(ret.df, "total_revenue")[j].n
        /\ Column(ret.df, "total_revenue")[i] = Column(ret.df, "total_revenue")[j]
             => GroupPosition(Column(ret.df, "segment")[i])
                  < GroupPosition(Column(ret.df, "segment")[j])

\* The summaries of the clean table both exist.
BothSummaries ==
  /\ SegmentDone
  /\ ~ret.raised
  /\ ~IsEmpty(ret.df)
  /\ ~build_monthly_summary(clean_df).raised
  /\ ~IsEmpty(build_monthly_summary(clean_df).df)

KpisDone == pc = "kpis_out"

\* The total_revenue of the last two months of the summary.
PrevRevenue == Column(monthly_df, "total_revenue")[Len(monthly_df.rows) - 1].n

CurrRevenue == Column(monthly_df, "total_revenue")[Len(monthly_df.rows)].n

\* (curr - prev) / prev * 100 rounded to two decimals, in hundredths.
PercentChange(prev, curr) ==
  RoundHalfEven((IF prev < 0 THEN prev - curr ELSE curr - prev) * 10000, Abs(prev))

\* C19: mom_revenue_growth is null exactly when the monthly summary has
\* fewer than two rows; with two or more it is the percent change from the
\* second-to-last total_revenue to the last, and a number (0.0) when the
\* second-to-last is 0.
C19_MomGrowth ==
  KpisDone =>
    /\ kpis.mom_revenue_growth = NoneValue <=> Len(monthly_df.rows) < 2
    /\ Len(monthly_df.rows) >= 2 =>
         /\ IsNumber(kpis.mom_revenue_growth)
         /\ kpis.mom_revenue_growth
              = IF PrevRevenue = 0 THEN Dec(0)
                ELSE Dec(PercentChange(PrevRevenue, CurrRevenue))

\* Monthly revenues [1000, 1200] give 20.0.
C19_Witness ==
  /\ KpisDone
  /\ Column(monthly_df, "total_revenue") = <<Num(1000), Num(1200)>>
  /\ kpis.mom_revenue_growth = Dec(2000)

KPI_KEYS ==
  { "total_revenue", "total_orders", "unique_customers", "avg_order_value",
    "revenue_per_customer", "latest_month", "latest_month_revenue",
    "mom_revenue_growth", "total_cost", "gross_margin", "total_marketing_spend",
    "roas", "total_months", "orders_per_customer" }

KPI_COUNTS_AND_RATIOS ==
  { "total_revenue", "total_orders", "unique_customers", "avg_order_value",
    "revenue_per_customer", "latest_month_revenue", "total_months",
    "orders_per_customer" }

KPI_NULL_WHEN_EMPTY ==
  {"mom_revenue_growth", "total_cost", "gross_margin", "total_marketing_spend", "roas"}

\* C20: for an empty clean table the three summaries are empty and
\* compute_kpis returns a mapping of the same keys as for a non-empty table,
\* the counts and ratios 0 and mom_revenue_growth, total_cost, gross_margin,
\* total_marketing_spend and roas null.
C20_EmptyInput ==
  /\ KpisDone => DOMAIN kpis = KPI_KEYS
  /\ clean_df.rows = <<>> =>
       /\ (MonthlyDone \/ SegmentDone \/ DailyDone) =>
            (~ret.raised /\ ret.df = EmptyTable)
       /\ KpisDone =>
            /\ \A key \in KPI_COUNTS_AND_RATIOS : IsZero(kpis[key])
            /\ \A key \in KPI_NULL_WHEN_EMPTY : kpis[key] = NoneValue

\* The mapping of an empty clean table that has all the columns.
C20_Witness ==
  /\ KpisDone
  /\ clean_df.rows = <<>>
  /\ HasCol(clean_df, "cost")
  /\ monthly_df = EmptyTable
  /\ kpis.total_orders = Num(0)
  /\ kpis.roas = NoneValue

\* The KPI mapping was computed from the rows: neither table is empty.
KpisComputed == KpisDone /\ ~IsEmpty(clean_df) /\ ~IsEmpty(monthly_df)

\* p / q rounded to two decimals, in hundredths.
Hundredths(p, q) == RoundHalfEven((IF q < 0 THEN 0 - p ELSE p) * 100, Abs(q))

\* (revenue - cost) / revenue * 100 of the clean table, 0.0 for no revenue.
ExpectedGrossMargin ==
  IF Total(Column(clean_df, "revenue")) = 0 THEN Dec(0)
  ELSE Dec(Hundredths((Total(Column(clean_df, "revenue"))
                         - Total(Column(clean_df, "cost"))) * 100,
                      Total(Column(clean_df, "revenue"))))

\* revenue / marketing_spend of the clean table, 0.0 for no spend.
ExpectedRoas ==
  IF Total(Column(clean_df, "marketing_spend")) = 0 THEN Dec(0)
  ELSE Dec(Hundredths(Total(Column(clean_df, "revenue")),
                      Total(Column(clean_df, "marketing_spend"))))

\* C21 as claimed: gross_margin is null when the clean table has no cost
\* column and safe_divide(total_revenue - total_cost, total_revenue) * 100
\* (to the two decimals of the mapping) whenever it has one; roas is null
\* when there is no marketing_spend column and
\* safe_divide(total_revenue, total_marketing_spend) whenever there is one.
C21_AsClaimed ==
  KpisDone =>
    /\ kpis.gross_margin
         = IF HasCol(clean_df, "cost") THEN ExpectedGrossMargin ELSE NoneValue
    /\ kpis.roas
         = IF HasCol(clean_df, "marketing_spend") THEN ExpectedRoas ELSE NoneValue

\* C21: when the clean table and the monthly summary are not empty,
\* gross_margin is null without a cost column and, with one,
\* safe_divide(total_revenue - total_cost, total_revenue) * 100 rounded to
\* two decimals, and roas is null without a marketing_spend column and, with
\* one, safe_divide(total_revenue, total_marketing_spend) rounded to two
\* decimals; when either is empty both are null, whatever the columns.
C21_MarginAndRoas ==
  /\ KpisComputed =>
       /\ kpis.gross_margin
            = IF HasCol(clean_df, "cost") THEN ExpectedGrossMargin ELSE NoneValue
       /\ kpis.roas
            = IF HasCol(clean_df, "marketing_spend") THEN ExpectedRoas ELSE NoneValue
  /\ (KpisDone /\ ~KpisComputed) =>
       (kpis.gross_margin = NoneValue /\ kpis.roas = NoneValue)

\* Revenue 3000, cost 400 and marketing spend 200: 86.67 and 15.0.
C21_Witness ==
  /\ KpisComputed
  /\ Total(Column(clean_df, "revenue")) = 3000
  /\ HasCol(clean_df, "cost") /\ Total(Column(clean_df, "cost")) = 400
  /\ HasCol(clean_df, "marketing_spend")
  /\ Total(Column(clean_df, "marketing_spend")) = 200
  /\ kpis.gross_margin = Dec(8667)
  /\ kpis.roas = Dec(1500)

\* The total_orders of the monthly summary, summed over its rows.
MonthlyOrders ==
  IF IsEmpty(monthly_df) THEN 0 ELSE Total(Column(monthly_df, "total_orders"))

\* The rows of the clean table in the month of row m of monthly_df that
\* have an order_id.
MonthOrderRows(m) ==
  {i \in 1..Len(clean_df.rows) :
     /\ Column(clean_df, "year_month")[i] = Column(monthly_df, "year_month")[m]
     /\ ~IsNa(Column(clean_df, "order_id")[i])}

\* C28: for a clean table that has order_id, the total_orders of the
\* monthly summary sum to the total_orders of the KPI mapping, the monthly
\* one counting the rows of the month whose order_id is not null and the KPI
\* one the distinct order ids of a non-empty table and summary.
C28_OrderCounts ==
  (KpisDone /\ HasCol(clean_df, "order_id")) =>
    /\ MonthlyOrders = kpis.total_orders.n
    /\ KpisComputed =>
         /\ \A m \in 1..Len(monthly_df.rows) :
              Column(monthly_df, "total_orders")[m] = Num(Cardinality(MonthOrderRows(m)))
         /\ kpis.total_orders
              = Num(Cardinality({Column(clean_df, "order_id")[i] :
                                   i \in 1..Len(clean_df.rows)} \ {Null}))

\* Order 1 twice in the input and an order without id: the clean table has
\* two rows, the months count 0 and 1 orders, the KPI mapping 1.
C28_Witness ==
  /\ KpisDone
  /\ Column(mapped_df, "order_id") = <<Null, Str(<<"1">>), Str(<<"1">>)>>
  /\ Column(mapped_df, "date") = <<MAR_05, OCT_25, OCT_25>>
  /\ Column(clean_df, "order_id") = <<Null, Str(<<"1">>)>>
  /\ Column(monthly_df, "total_orders") = <<Num(0), Num(1)>>
  /\ kpis.total_orders = Num(1)

(***************************************************************************)
(* Properties of safe_divide (SpecMath).                                   *)
(***************************************************************************)
SafeDivideDone == pc = "safe_divide_out"

\* numerator / denominator is a TypeError: an operand is a text or None.
QuotientRaises ==
  \/ ret.numerator.k \in {"str", "none"}
  \/ ret.denominator.k \in {"str", "none"}

\* ret.result is numerator / denominator: NaN for a NaN numerator, and the
\* fraction of that value otherwise.
IsQuotient ==
  IF ret.numerator.k = "null" THEN ret.result = Null
  ELSE /\ ret.result.k = "rat"
       /\ ret.result.p * RatOf(ret.numerator).q * RatOf(ret.denominator).p
            = ret.result.q * RatOf(ret.numerator).p * RatOf(ret.denominator).q

\* C18 as claimed: safe_divide(n, d, default) returns default whenever d is
\* zero or null, the missing-value marker of table cells (NaN) included, or
\* the division raises, and n / d otherwise.
C18_AsClaimed ==
  SafeDivideDone =>
    IF \/ IsZero(ret.denominator)
       \/ ret.denominator.k \in {"none", "null"}
       \/ QuotientRaises
    THEN ret.result = ret.default
    ELSE IsQuotient

====
